---- MODULE Spec2Model ----
(***************************************************************************)
(* Phase 1 ceremony coordinator (phase1-coordinator/src/coordinator.rs).   *)
(*                                                                         *)
(* The coordinator keeps no state of its own: every handler reads and      *)
(* writes the storage (Key::RoundHeight, Key::Round(h)) and the transcript *)
(* files on disk (contribution locators, round locators).                  *)
(*                                                                         *)
(* The objects Round / Chunk / Contribution (crate::objects) and the       *)
(* commands Initialization / Computation are declared and called by the    *)
(* coordinator but their bodies are not part of the sources at hand; they  *)
(* are modelled from the design document (sections 3 and 4.F) and from the *)
(* assertions of the coordinator's own tests.                              *)
(***************************************************************************)
EXTENDS Integers, Sequences, FiniteSets, TLC

---------------------------------------------------------------------------
(* Bounds of the model *)

\* Highest round height the ceremony is driven to.
MaxHeight == 2

\* environment.number_of_chunks()
NumberOfChunks == 2

---------------------------------------------------------------------------
(* Participants *)

None == "none"

\* Participant::Contributor(_)
ContributorIds == {"c1", "c2"}

\* Participant::Verifier(_)
VerifierIds == {"v1", "v2"}

\* environment.coordinator_verifier()
CoordinatorVerifier == "v0"

\* The callers of the coordinator's entry points.
Participants == ContributorIds \cup VerifierIds

\* The participant lists handed to next_round (any Vec<Participant>, the empty
\* one included).
ContributorSets == {{}, {"c1"}, {"c1", "c2"}}
VerifierSets == {{"v1"}}

is_contributor(p) == p \in ContributorIds
is_verifier(p) == p \in VerifierIds \cup {CoordinatorVerifier}

ChunkIds == 0 .. (NumberOfChunks - 1)
Heights == 0 .. MaxHeight

\* One more than the largest contributor list: contribution ids 0 .. MaxContributionId.
MaxContributionId == Cardinality(ContributorIds)

---------------------------------------------------------------------------
(* Results *)

OkErr == "Ok"

Ok(st, v) == [err |-> OkErr, st |-> st, val |-> v]
Err(st, e) == [err |-> e, st |-> st, val |-> 0]

---------------------------------------------------------------------------
(* Locators and files *)

\* environment.contribution_locator(round_height, chunk_id, contribution_id)
contribution_locator(h, c, id) == <<h, c, id>>

\* environment.contribution_locator_exists(round_height, chunk_id, contribution_id)
contribution_locator_exists(st, h, c, id) == contribution_locator(h, c, id) \in st.files

round_locator_exists(st, h) == h \in st.roundFiles

round_directory_exists(st, h) ==
    \/ h \in st.roundFiles
    \/ \E l \in st.files : l[1] = h

round_directory_reset(st, h) ==
    [st EXCEPT !.files = {l \in st.files : l[1] # h},
               !.roundFiles = st.roundFiles \ {h}]

---------------------------------------------------------------------------
(* objects::Contribution, objects::Chunk, objects::Round *)

NoRound == [height |-> -1]

\* A locator that is not assigned (Option::None of a locator field).
NoLocator == <<>>

Contribution0(h, c) ==
    [id |-> 0,
     contributor_id |-> None,
     contributor_locator |-> NoLocator,
     verifier_id |-> CoordinatorVerifier,
     verified_locator |-> contribution_locator(h, c, 0),
     verified |-> TRUE]

NewContribution(id, p, locator) ==
    [id |-> id,
     contributor_id |-> p,
     contributor_locator |-> locator,
     verifier_id |-> None,
     verified_locator |-> NoLocator,
     verified |-> FALSE]

ChunkNew(h, c) ==
    [lock_holder |-> None, contributions |-> <<Contribution0(h, c)>>]

RoundNew(h, contributors, verifiers) ==
    [height |-> h,
     contributors |-> contributors,
     verifiers |-> verifiers,
     chunks |-> [c \in ChunkIds |-> ChunkNew(h, c)]]

is_authorized_contributor(round, p) == p \in round.contributors
is_authorized_verifier(round, p) == p \in round.verifiers

\* One contribution per authorized contributor, after contribution 0.
expected_num_contributions(round) == Cardinality(round.contributors) + 1

current_contribution(chunk) == chunk.contributions[Len(chunk.contributions)]
current_contribution_id(chunk) == current_contribution(chunk).id

is_locked(chunk) == chunk.lock_holder # None
is_locked_by(chunk, p) == chunk.lock_holder = p
is_chunk_locked_by(round, c, p) == c \in ChunkIds /\ is_locked_by(round.chunks[c], p)

only_contributions_complete(chunk, n) == Len(chunk.contributions) = n

chunk_is_complete(chunk, n) ==
    /\ Len(chunk.contributions) = n
    /\ current_contribution(chunk).verified

is_complete(round) ==
    \A c \in ChunkIds : chunk_is_complete(round.chunks[c], expected_num_contributions(round))

has_contribution(chunk, id) == \E i \in 1 .. Len(chunk.contributions) : chunk.contributions[i].id = id

get_contribution(chunk, id) ==
    chunk.contributions[CHOOSE i \in 1 .. Len(chunk.contributions) : chunk.contributions[i].id = id]

\* Chunk::next_contribution_id: the id that follows the current one, once the
\* current contribution is verified and the chunk is not fully contributed.
next_contribution_id(chunk, n) ==
    IF only_contributions_complete(chunk, n) THEN [err |-> "ContributionsComplete", val |-> 0]
    ELSE IF ~current_contribution(chunk).verified
         THEN [err |-> "ContributionMissingVerification", val |-> 0]
         ELSE [err |-> OkErr, val |-> current_contribution_id(chunk) + 1]

has_contributed(chunk, p) ==
    \E i \in 1 .. Len(chunk.contributions) : chunk.contributions[i].contributor_id = p

\* A Round::try_lock_chunk that gives a contributor the lock of a chunk that
\* already holds all expected contributions.
round_try_lock_chunk_when_complete(round, c, p) ==
    LET chunk == round.chunks[c] IN
    IF is_locked(chunk) THEN [err |-> "ChunkLockAlreadyAcquired", round |-> round]
    ELSE IF \E d \in ChunkIds : is_locked_by(round.chunks[d], p)
         THEN [err |-> "ChunkLockAlreadyAcquired", round |-> round]
    ELSE IF is_contributor(p) /\ ~(is_authorized_contributor(round, p) /\ current_contribution(chunk).verified)
         THEN [err |-> "UnauthorizedChunkContributor", round |-> round]
    ELSE IF ~is_contributor(p) /\ ~(is_authorized_verifier(round, p) /\ ~current_contribution(chunk).verified)
         THEN [err |-> "UnauthorizedChunkVerifier", round |-> round]
    ELSE [err |-> OkErr, round |-> [round EXCEPT !.chunks[c].lock_holder = p]]

\* Round::try_lock_chunk. The chunk lock is a strict mutex; a contributor takes
\* it on a verified tail, a verifier on an unverified tail (design document,
\* 4.F). Beyond that:
\*  - a participant holding the lock of another chunk is refused
\*    (coordinator_contributor_try_lock_test: with chunk 0 locked by the
\*    contributor, its try_lock_chunk(1) is an error);
\*  - a contributor is refused on a chunk that already holds all expected
\*    contributions (data model, invariant (c): a contributor holds a lock
\*    only to append a contribution);
\*  - a contributor is refused on a chunk it has contributed to
\*    (CoordinatorError::ContributorAlreadyContributed; a round expects one
\*    contribution per contributor and chunk).
round_try_lock_chunk(round, c, p) ==
    LET chunk == round.chunks[c] IN
    IF is_locked(chunk) THEN [err |-> "ChunkLockAlreadyAcquired", round |-> round]
    ELSE IF \E d \in ChunkIds : is_locked_by(round.chunks[d], p)
         THEN [err |-> "ChunkLockAlreadyAcquired", round |-> round]
    ELSE IF is_contributor(p) /\ ~(is_authorized_contributor(round, p) /\ current_contribution(chunk).verified)
         THEN [err |-> "UnauthorizedChunkContributor", round |-> round]
    ELSE IF is_contributor(p) /\ only_contributions_complete(chunk, expected_num_contributions(round))
         THEN [err |-> "ContributionsComplete", round |-> round]
    ELSE IF is_contributor(p) /\ has_contributed(chunk, p)
         THEN [err |-> "ContributorAlreadyContributed", round |-> round]
    ELSE IF ~is_contributor(p) /\ ~(is_authorized_verifier(round, p) /\ ~current_contribution(chunk).verified)
         THEN [err |-> "UnauthorizedChunkVerifier", round |-> round]
    ELSE [err |-> OkErr, round |-> [round EXCEPT !.chunks[c].lock_holder = p]]

\* Chunk::add_contribution: appends the unverified contribution and releases the lock.
chunk_add_contribution(round, c, id, p, locator, n) ==
    LET chunk == round.chunks[c] IN
    IF ~is_locked_by(chunk, p) THEN [err |-> "ChunkNotLockedOrByWrongParticipant", round |-> round]
    ELSE IF only_contributions_complete(chunk, n) THEN [err |-> "ContributionsComplete", round |-> round]
    ELSE IF id # current_contribution_id(chunk) + 1 THEN [err |-> "ContributionIdMismatch", round |-> round]
    ELSE [err |-> OkErr,
          round |-> [round EXCEPT !.chunks[c] =
                        [lock_holder |-> None,
                         contributions |-> Append(chunk.contributions, NewContribution(id, p, locator))]]]

\* Round::verify_contribution: marks the contribution verified and releases the lock.
round_verify_contribution(round, c, id, v, locator) ==
    LET chunk == round.chunks[c] IN
    IF ~is_locked_by(chunk, v) THEN [err |-> "ChunkNotLockedOrByWrongParticipant", round |-> round]
    ELSE IF ~has_contribution(chunk, id) THEN [err |-> "ContributionMissing", round |-> round]
    ELSE IF get_contribution(chunk, id).verified THEN [err |-> "ContributionAlreadyVerified", round |-> round]
    ELSE [err |-> OkErr,
          round |-> [round EXCEPT !.chunks[c] =
                        [lock_holder |-> None,
                         contributions |->
                            [i \in 1 .. Len(chunk.contributions) |->
                                IF chunk.contributions[i].id = id
                                THEN [chunk.contributions[i] EXCEPT !.verifier_id = v,
                                                                    !.verified_locator = locator,
                                                                    !.verified = TRUE]
                                ELSE chunk.contributions[i]]]]]

---------------------------------------------------------------------------
(* Disk storage: locators and their paths (storage/disk.rs) *)

\* storage::Locator. A path is a string, held as the sequence of its
\* characters.
RoundHeightLocator == <<"RoundHeight">>
RoundStateLocator(h) == <<"RoundState", h>>
RoundFileLocator(h) == <<"RoundFile", h>>
ContributionFileLocator(h, c, id, verified) == <<"ContributionFile", h, c, id, verified>>

\* The numbers the locators are made of: one and two digits.
LocatorNumbers == {0, 1, 2, 10, 12}

Locators ==
    {RoundHeightLocator}
        \cup {RoundStateLocator(h) : h \in LocatorNumbers}
        \cup {RoundFileLocator(h) : h \in LocatorNumbers}
        \cup {ContributionFileLocator(h, c, id, v) :
                  h \in {0, 1, 12}, c \in {0, 10}, id \in {0, 1, 12}, v \in BOOLEAN}

DigitChars == <<"0", "1", "2", "3", "4", "5", "6", "7", "8", "9">>

\* format!("{}", n) of a u64
RECURSIVE format_u64(_)
format_u64(n) ==
    IF n < 10 THEN <<DigitChars[n + 1]>>
    ELSE format_u64(n \div 10) \o <<DigitChars[(n % 10) + 1]>>

DigitValue(ch) == (CHOOSE i \in 1 .. 10 : DigitChars[i] = ch) - 1

IsDigit(ch) == \E i \in 1 .. 10 : DigitChars[i] = ch

RECURSIVE DigitsValue(_)
DigitsValue(s) ==
    IF Len(s) = 0 THEN 0
    ELSE 10 * DigitsValue(SubSeq(s, 1, Len(s) - 1)) + DigitValue(s[Len(s)])

\* u64::from_str: decimal digits, after an optional plus sign.
u64_from_str(s) ==
    LET digits == IF Len(s) > 0 /\ s[1] = "+" THEN Tail(s) ELSE s IN
    IF Len(digits) = 0 \/ \E i \in 1 .. Len(digits) : ~IsDigit(digits[i])
    THEN [err |-> "ParseIntError", val |-> 0]
    ELSE [err |-> OkErr, val |-> DigitsValue(digits)]

\* str::starts_with and str::strip_prefix
starts_with(s, prefix) ==
    Len(prefix) <= Len(s) /\ SubSeq(s, 1, Len(prefix)) = prefix

strip_prefix(s, prefix) == SubSeq(s, Len(prefix) + 1, Len(s))

\* The index of the first ch in s, 0 when there is none.
FirstIndex(s, ch) ==
    IF \E i \in 1 .. Len(s) : s[i] = ch
    THEN CHOOSE i \in 1 .. Len(s) : s[i] = ch /\ \A j \in 1 .. i - 1 : s[j] # ch
    ELSE 0

\* str::splitn(2, ch): one piece when ch is not in s, two otherwise.
splitn_2(s, ch) ==
    LET i == FirstIndex(s, ch) IN
    IF i = 0 THEN <<s>> ELSE <<SubSeq(s, 1, i - 1), SubSeq(s, i + 1, Len(s))>>

\* Path::components: the pieces between slashes, empty pieces dropped.
RECURSIVE components(_)
components(s) ==
    LET parts == splitn_2(s, "/")
        head == IF Len(parts[1]) = 0 THEN <<>> ELSE <<parts[1]>> IN
    IF Len(parts) = 1 THEN head ELSE head \o components(parts[2])

\* Path::starts_with compares whole components.
path_starts_with(s, prefix) ==
    LET sc == components(s)
        pc == components(prefix) IN
    Len(pc) <= Len(sc) /\ SubSeq(sc, 1, Len(pc)) = pc

RECURSIVE join(_)
join(cs) ==
    IF Len(cs) = 0 THEN <<>>
    ELSE IF Len(cs) = 1 THEN cs[1]
    ELSE cs[1] \o <<"/">> \o join(Tail(cs))

\* Path::strip_prefix: the components after those of the prefix.
path_strip_prefix(s, prefix) ==
    join(SubSeq(components(s), Len(components(prefix)) + 1, Len(components(s))))

\* DiskManifest.base: environment.local_base_directory()
base == <<"t", "r", "a", "n", "s", "c", "r", "i", "p", "t">>

Str_slash == <<"/">>
Str_round_height == <<"r", "o", "u", "n", "d", "_", "h", "e", "i", "g", "h", "t">>
Str_round_ == <<"r", "o", "u", "n", "d", "_">>
Str_chunk_ == <<"c", "h", "u", "n", "k", "_">>
Str_contribution_ == <<"c", "o", "n", "t", "r", "i", "b", "u", "t", "i", "o", "n", "_">>
Str_state_json == <<"s", "t", "a", "t", "e", ".", "j", "s", "o", "n">>
Str_dot_verified == <<".", "v", "e", "r", "i", "f", "i", "e", "d">>
Str_dot_unverified == <<".", "u", "n", "v", "e", "r", "i", "f", "i", "e", "d">>
Str_verified == <<"v", "e", "r", "i", "f", "i", "e", "d">>
Str_unverified == <<"u", "n", "v", "e", "r", "i", "f", "i", "e", "d">>

\* DiskManifest::round_directory
round_directory(h) == base \o Str_slash \o Str_round_ \o format_u64(h)

\* DiskManifest::chunk_directory
chunk_directory(h, c) == round_directory(h) \o Str_slash \o Str_chunk_ \o format_u64(c)

\* A contribution_locator that names the file by the flag alone.
disk_contribution_locator_by_flag(h, c, id, verified) ==
    chunk_directory(h, c) \o Str_slash \o Str_contribution_ \o format_u64(id)
        \o (IF verified THEN Str_dot_verified ELSE Str_dot_unverified)

\* DiskManifest::contribution_locator
disk_contribution_locator(h, c, id, verified) ==
    chunk_directory(h, c) \o Str_slash \o Str_contribution_ \o format_u64(id)
        \o (IF verified \/ id = 0 THEN Str_dot_verified ELSE Str_dot_unverified)

\* DiskManifest::to_path. The final Path::new(..).to_str() returns the string
\* it was given.
to_path(l) ==
    IF l[1] = "RoundHeight" THEN base \o Str_slash \o Str_round_height
    ELSE IF l[1] = "RoundState" THEN round_directory(l[2]) \o Str_slash \o Str_state_json
    ELSE IF l[1] = "RoundFile"
         THEN round_directory(l[2]) \o Str_slash \o Str_round_ \o format_u64(l[2]) \o Str_dot_verified
         ELSE disk_contribution_locator(l[2], l[3], l[4], l[5])

LocatorErr(e) == [err |-> e, val |-> <<>>]
LocatorOk(l) == [err |-> OkErr, val |-> l]

\* DiskManifest::to_locator, inside the chunk directory: path is what follows
\* "chunk_{c}/". The id and the extension are taken from the name of the
\* chunk directory, as the code does.
to_locator_in_chunk_directory(round_height, chunk_id, chunk, path) ==
    IF ~path_starts_with(path, Str_contribution_) THEN LocatorErr("StorageLocatorFormatIncorrect")
    ELSE LET parts == splitn_2(strip_prefix(chunk, Str_chunk_), ".") IN
         IF Len(parts) # 2 THEN LocatorErr("StorageLocatorFormatIncorrect")
         ELSE LET id == u64_from_str(parts[1]) IN
              IF id.err # OkErr THEN LocatorErr(id.err)
              ELSE IF parts[2] = Str_unverified
                   THEN LocatorOk(ContributionFileLocator(round_height, chunk_id, id.val, FALSE))
              ELSE IF parts[2] = Str_verified
                   THEN LocatorOk(ContributionFileLocator(round_height, chunk_id, id.val, TRUE))
              ELSE LocatorErr("StorageLocatorFormatIncorrect")

\* DiskManifest::to_locator, inside the round directory: remainder is what
\* follows "round_{h}/".
to_locator_in_round_directory(round_height, remainder) ==
    IF remainder = Str_state_json THEN LocatorOk(RoundStateLocator(round_height))
    ELSE IF remainder = Str_round_ \o format_u64(round_height) \o Str_dot_verified
         THEN LocatorOk(RoundStateLocator(round_height))
    ELSE LET parts == splitn_2(remainder, "/") IN
         IF Len(parts) # 2 \/ ~starts_with(parts[1], Str_chunk_)
         THEN LocatorErr("StorageLocatorFormatIncorrect")
         ELSE LET chunk_id == u64_from_str(strip_prefix(parts[1], Str_chunk_)) IN
              IF chunk_id.err # OkErr THEN LocatorErr(chunk_id.err)
              ELSE IF parts[1] # Str_chunk_ \o format_u64(chunk_id.val)
                   THEN LocatorErr("StorageLocatorFormatIncorrect")
                   ELSE to_locator_in_chunk_directory(round_height, chunk_id.val, parts[1], parts[2])

\* DiskManifest::to_locator
to_locator(path) ==
    IF ~path_starts_with(path, base) THEN LocatorErr("StorageLocatorFormatIncorrect")
    ELSE LET key == path_strip_prefix(path, base \o Str_slash) IN
         IF key = Str_round_height THEN LocatorOk(RoundHeightLocator)
         ELSE LET parts == splitn_2(key, "/") IN
              IF Len(parts) # 2 \/ ~starts_with(parts[1], Str_round_)
              THEN LocatorErr("StorageLocatorFormatIncorrect")
              ELSE LET round_height == u64_from_str(strip_prefix(parts[1], Str_round_)) IN
                   IF round_height.err # OkErr THEN LocatorErr(round_height.err)
                   ELSE IF parts[1] # Str_round_ \o format_u64(round_height.val)
                        THEN LocatorErr("StorageLocatorFormatIncorrect")
                        ELSE to_locator_in_round_directory(round_height.val, parts[2])

---------------------------------------------------------------------------
(* Disk storage: the store (storage/disk.rs) *)

\* The locators, file sizes and objects the store is exercised with. An
\* object is the sequence of its bytes; a new file is filled with zeros.
DiskLocators ==
    {RoundStateLocator(1),
     ContributionFileLocator(1, 0, 0, FALSE),
     ContributionFileLocator(1, 0, 0, TRUE)}

MaxSize == 2
Sizes == 1 .. MaxSize
Objects == {<<1>>, <<2, 2>>}

DiskPaths == {to_path(l) : l \in DiskLocators}

NoFile == [present |-> FALSE, bytes |-> <<>>]
FileOf(bytes) == [present |-> TRUE, bytes |-> bytes]
Zeros(n) == [i \in 1 .. n |-> 0]

\* The directory a file of locator l is created in. The base directory is
\* there once load has run.
parent_directory(l) ==
    IF l[1] = "RoundHeight" THEN base
    ELSE IF l[1] = "ContributionFile" THEN chunk_directory(l[2], l[3])
    ELSE round_directory(l[2])

DiskErr(d, e) == [err |-> e, d |-> d]
DiskOk(d) == [err |-> OkErr, d |-> d]

\* Disk::exists
exists(d, l) == l \in d.manifest /\ d.locators[l] # 0

\* Disk::size: the length of the file behind the handle.
size(d, l) == Len(d.fs[to_path(l)].bytes)

\* DiskManifest::chunk_directory_init
chunk_directory_init(d, h, c) ==
    [d EXCEPT !.dirs = d.dirs \cup {round_directory(h), chunk_directory(h, c)}]

\* DiskManifest::save: the set is written over the manifest file through a
\* mapping of it; a file of length zero cannot be mapped and stays as it is.
\* The callers drop the result.
save(d, locators) ==
    IF d.file.present /\ d.file.written
    THEN [d EXCEPT !.file.locators = locators]
    ELSE d

\* Disk::initialize up to and including file.set_len: steps = 1 stops after
\* the file is created (empty), steps = 2 after its length is set.
initialize_file(d, l, size_, steps) ==
    LET d1 == IF l[1] = "ContributionFile" THEN chunk_directory_init(d, l[2], l[3]) ELSE d
        path == to_path(l) IN
    IF parent_directory(l) \notin d1.dirs \/ d1.fs[path].present THEN DiskErr(d1, "Io")
    ELSE DiskOk([d1 EXCEPT !.fs[path] = FileOf(IF steps = 1 THEN <<>> ELSE Zeros(size_))])

\* A Disk::initialize without the check that the locator is new.
initialize_unchecked(d, l, size_) ==
    LET f == initialize_file(d, l, size_, 2) IN
    IF f.err # OkErr THEN f
    ELSE LET inserted == l \notin f.d.manifest
             d2 == [f.d EXCEPT !.locators[l] = size_, !.manifest = f.d.manifest \cup {l}] IN
         IF inserted THEN DiskErr(d2, "StorageLocatorAlreadyExists")
         ELSE DiskOk(save(d2, d2.manifest))

\* Disk::initialize. HashSet::insert returns true when the value was not in
\* the set: a new locator is answered StorageLocatorAlreadyExists after the
\* file is created and mapped, and the manifest is not saved.
initialize(d, l, size_) ==
    IF exists(d, l) THEN DiskErr(d, "StorageLocatorAlreadyExists")
    ELSE LET f == initialize_file(d, l, size_, 2) IN
         IF f.err # OkErr THEN f
         ELSE LET inserted == l \notin f.d.manifest
                  d2 == [f.d EXCEPT !.locators[l] = size_, !.manifest = f.d.manifest \cup {l}] IN
              IF inserted THEN DiskErr(d2, "StorageLocatorAlreadyExists")
              ELSE DiskOk(save(d2, d2.manifest))

\* Disk::update. The file is set to the size of the object and the object is
\* written through the mapping made when the locator was initialized or
\* loaded; what does not fit the mapping is not written and the write fails.
update(d, l, object) ==
    IF ~exists(d, l) THEN DiskErr(d, "StorageLocatorMissing")
    ELSE LET mapped == d.locators[l]
             n == Len(object)
             written == [i \in 1 .. n |-> IF i <= mapped THEN object[i] ELSE 0]
             d1 == [d EXCEPT !.fs[to_path(l)] = FileOf(written)] IN
         IF n > mapped THEN DiskErr(d1, "Io") ELSE DiskOk(d1)

\* Disk::insert
insert(d, l, object) ==
    IF exists(d, l) THEN DiskErr(d, "StorageLocatorAlreadyExists")
    ELSE LET i == initialize(d, l, Len(object)) IN
         IF i.err # OkErr THEN i ELSE update(i.d, l, object)

\* Disk::remove. The first check is the one of initialize: a locator that
\* exists is refused.
remove(d, l) ==
    IF exists(d, l) THEN DiskErr(d, "StorageLocatorAlreadyExists")
    ELSE IF d.locators[l] = 0 THEN DiskErr(d, "StorageLockFailed")
    ELSE LET d1 == [d EXCEPT !.fs[to_path(l)] = NoFile,
                             !.locators[l] = 0,
                             !.manifest = d.manifest \ {l}] IN
         DiskOk(save(d1, d1.manifest))

\* Disk::load with DiskManifest::load. A manifest file that is missing is
\* created empty, and an empty file is neither mapped nor parsed: the load
\* fails. Every locator of the manifest is opened and mapped.
load(d) ==
    LET d1 == [d EXCEPT !.dirs = d.dirs \cup {base}, !.file.present = TRUE] IN
    IF ~d.file.present \/ ~d.file.written THEN DiskErr(d1, "Io")
    ELSE IF \E l \in d.file.locators :
                ~d.fs[to_path(l)].present \/ Len(d.fs[to_path(l)].bytes) = 0
         THEN DiskErr(d1, "Io")
         ELSE DiskOk([d1 EXCEPT !.loaded = TRUE,
                                !.manifest = d.file.locators,
                                !.locators = [l \in DiskLocators |->
                                                 IF l \in d.file.locators
                                                 THEN Len(d.fs[to_path(l)].bytes) ELSE 0]])

\* The process stops: what it held in memory is gone, the disk stays.
stopped(d) ==
    [d EXCEPT !.loaded = FALSE,
              !.manifest = {},
              !.locators = [l \in DiskLocators |-> 0]]

---------------------------------------------------------------------------
(* Phase 1: the accumulator and its verification (phase1/src/verification.rs) *)

\* The groups G1 and G2 have prime order GroupOrder. An element is held as
\* its discrete logarithm to the generator: 1 is the generator, 0 the point
\* at infinity, a scalar multiplication is a product and the pairing of a
\* G1 with a G2 element is the product of the two, all modulo GroupOrder.
GroupOrder == 5
MaxContributions == 2
KeyScalars == {1, 3}
Scalars == 1 .. GroupOrder - 1
generator == 1

mul(x, k) == (x * k) % GroupOrder
pairing(a, b) == (a * b) % GroupOrder

RECURSIVE power(_, _)
power(x, i) == IF i = 0 THEN 1 ELSE mul(power(x, i - 1), x)

\* Phase1Parameters for Groth16 with 4 powers: tau_g1 has 2N - 1 elements,
\* tau_g2, alpha_g1 and beta_g1 have N, beta_g2 is one element. In chunked
\* contribution mode a buffer holds the chunk_size elements of each vector
\* from offset chunk_index * chunk_size on; four powers in chunks of two
\* give every vector a chunk 0 and a chunk 1.
powers_length == 4
powers_g1_length == 2 * powers_length - 1

\* The powers the computation takes, tabulated.
Powers ==
    [x \in 0 .. GroupOrder - 1 |-> [i \in 0 .. powers_g1_length - 1 |-> power(x, i)]]
pow(x, i) == Powers[x][i]
chunk_size == 2

FullParameters == [contribution_mode |-> "Full", chunk_index |-> 0]
ParameterSets ==
    {FullParameters} \cup [contribution_mode : {"Chunked"}, chunk_index : {0, 1}]

\* The index before the first element of the buffer, and the indices of a
\* vector of length len that the buffer holds.
chunk_offset(parameters) ==
    IF parameters.contribution_mode = "Chunked"
    THEN parameters.chunk_index * chunk_size
    ELSE 0

chunk_elements(len, parameters) ==
    IF parameters.contribution_mode = "Chunked"
    THEN {i \in 1 .. len :
             chunk_offset(parameters) < i /\ i <= chunk_offset(parameters) + chunk_size}
    ELSE 1 .. len

\* read_initial_elements: the first two elements of a buffer.
read_initial_elements(v, parameters) ==
    <<v[chunk_offset(parameters) + 1], v[chunk_offset(parameters) + 2]>>

\* Phase1::initialization: every element is the generator.
initialization ==
    [tau_g1 |-> [i \in 1 .. powers_g1_length |-> generator],
     tau_g2 |-> [i \in 1 .. powers_length |-> generator],
     alpha_g1 |-> [i \in 1 .. powers_length |-> generator],
     beta_g1 |-> [i \in 1 .. powers_length |-> generator],
     beta_g2 |-> generator]

\* calculate_hash of an accumulator, as a number, and the G2 element hashed
\* from a digest and the tag of a secret (1 for tau, 2 for alpha, 3 for beta).
calculate_hash(acc) ==
    (acc.tau_g1[2] + 2 * acc.tau_g1[3] + 3 * acc.tau_g2[2] + 5 * acc.alpha_g1[1]
        + 7 * acc.alpha_g1[2] + 11 * acc.beta_g1[1] + 13 * acc.beta_g1[2] + 17 * acc.beta_g2)
        % (GroupOrder - 1)

\* Two digests that differ hash to different G2 elements.
Digests == 0 .. GroupOrder - 2

compute_g2_s(digest, tag) == 1 + ((digest + tag) % (GroupOrder - 1))

\* compute_g2_s_key
compute_g2_s_key(digest) ==
    [tau |-> compute_g2_s(digest, 1), alpha |-> compute_g2_s(digest, 2), beta |-> compute_g2_s(digest, 3)]

\* Phase1::key_generation: for each secret a G1 pair (g^r, (g^r)^secret)
\* and the G2 element H(digest, tag)^secret.
key_generation(privkey, r, digest) ==
    [tau_g1 |-> <<r, mul(r, privkey.tau)>>,
     alpha_g1 |-> <<r, mul(r, privkey.alpha)>>,
     beta_g1 |-> <<r, mul(r, privkey.beta)>>,
     tau_g2 |-> mul(compute_g2_s(digest, 1), privkey.tau),
     alpha_g2 |-> mul(compute_g2_s(digest, 2), privkey.alpha),
     beta_g2 |-> mul(compute_g2_s(digest, 3), privkey.beta)]

\* A computation that leaves beta_g2 as it was.
computation_without_beta_g2(input, privkey) ==
    [tau_g1 |-> [i \in 1 .. powers_g1_length |-> mul(input.tau_g1[i], pow(privkey.tau, i - 1))],
     tau_g2 |-> [i \in 1 .. powers_length |-> mul(input.tau_g2[i], pow(privkey.tau, i - 1))],
     alpha_g1 |-> [i \in 1 .. powers_length |->
                      mul(input.alpha_g1[i], mul(privkey.alpha, pow(privkey.tau, i - 1)))],
     beta_g1 |-> [i \in 1 .. powers_length |->
                     mul(input.beta_g1[i], mul(privkey.beta, pow(privkey.tau, i - 1)))],
     beta_g2 |-> input.beta_g2]

\* Phase1::computation: element i of a vector is raised to tau^i, with alpha
\* and beta on top in their vectors.
computation(input, privkey) ==
    [tau_g1 |-> [i \in 1 .. powers_g1_length |-> mul(input.tau_g1[i], pow(privkey.tau, i - 1))],
     tau_g2 |-> [i \in 1 .. powers_length |-> mul(input.tau_g2[i], pow(privkey.tau, i - 1))],
     alpha_g1 |-> [i \in 1 .. powers_length |->
                      mul(input.alpha_g1[i], mul(privkey.alpha, pow(privkey.tau, i - 1)))],
     beta_g1 |-> [i \in 1 .. powers_length |->
                     mul(input.beta_g1[i], mul(privkey.beta, pow(privkey.tau, i - 1)))],
     beta_g2 |-> mul(input.beta_g2, privkey.beta)]

\* check_same_ratio: e(g1.0, g2.1) = e(g1.1, g2.0)
check_same_ratio(g1, g2) == pairing(g1[1], g2[2]) = pairing(g1[2], g2[1])

\* check_power_ratios and check_power_ratios_g2: consecutive elements of the
\* vector are in the ratio of the check pair of the other group.
check_power_ratios(v, g2_check) ==
    \A i \in 1 .. Len(v) - 1 : check_same_ratio(<<v[i], v[i + 1]>>, g2_check)

check_power_ratios_g2(v, g1_check) ==
    \A i \in 1 .. Len(v) - 1 : check_same_ratio(g1_check, <<v[i], v[i + 1]>>)

\* Reading the output with CheckForCorrectness::Full refuses the point at
\* infinity.
output_elements_nonzero(output) ==
    /\ \A i \in 1 .. powers_g1_length : output.tau_g1[i] # 0
    /\ \A i \in 1 .. powers_length :
           output.tau_g2[i] # 0 /\ output.alpha_g1[i] # 0 /\ output.beta_g1[i] # 0
    /\ output.beta_g2 # 0

\* check_elements_are_nonzero_and_in_prime_order_subgroup over the elements
\* of the buffer, vector by vector.
chunk_elements_nonzero(output, parameters) ==
    /\ \A i \in chunk_elements(powers_g1_length, parameters) : output.tau_g1[i] # 0
    /\ \A i \in chunk_elements(powers_length, parameters) :
           output.tau_g2[i] # 0 /\ output.alpha_g1[i] # 0 /\ output.beta_g1[i] # 0

\* The checks of the first branch of Phase1::verification, taken in full
\* mode and for chunk 0: the proofs of knowledge of the key against the
\* digest, then the generators and the first powers of the output against
\* the input.
verification_initial(input, output, key, digest, parameters) ==
    LET s == compute_g2_s_key(digest)
        before_g1 == read_initial_elements(input.tau_g1, parameters)
        after_g1 == read_initial_elements(output.tau_g1, parameters)
        before_g2 == read_initial_elements(input.tau_g2, parameters)
        after_g2 == read_initial_elements(output.tau_g2, parameters) IN
    IF ~check_same_ratio(key.tau_g1, <<s.tau, key.tau_g2>>) THEN "InvalidRatio"
    ELSE IF ~check_same_ratio(key.alpha_g1, <<s.alpha, key.alpha_g2>>) THEN "InvalidRatio"
    ELSE IF ~check_same_ratio(key.beta_g1, <<s.beta, key.beta_g2>>) THEN "InvalidRatio"
    ELSE IF parameters.contribution_mode = "Full" /\ ~output_elements_nonzero(output)
         THEN "PointAtInfinity"
    ELSE IF after_g1[1] # generator THEN "InvalidGenerator"
    ELSE IF ~check_same_ratio(<<before_g1[2], after_g1[2]>>, <<s.tau, key.tau_g2>>)
         THEN "InvalidRatio"
    ELSE IF after_g2[1] # generator THEN "InvalidGenerator"
    ELSE IF ~check_same_ratio(key.tau_g1, <<before_g2[2], after_g2[2]>>) THEN "InvalidRatio"
    ELSE IF ~check_same_ratio(<<input.alpha_g1[1], output.alpha_g1[1]>>, <<s.alpha, key.alpha_g2>>)
         THEN "InvalidRatio"
    ELSE IF ~check_same_ratio(<<input.beta_g1[1], output.beta_g1[1]>>, <<s.beta, key.beta_g2>>)
         THEN "InvalidRatio"
    ELSE IF ~check_same_ratio(key.beta_g1, <<input.beta_g2, output.beta_g2>>) THEN "InvalidRatio"
    ELSE OkErr

\* The checks of the second branch, taken for a chunk after the first:
\* the first element of the buffer is compared with the generator in G1
\* and in G2; the input, the key and the digest are not read.
verification_later_chunk(output, parameters) ==
    LET after_g1 == read_initial_elements(output.tau_g1, parameters)
        after_g2 == read_initial_elements(output.tau_g2, parameters) IN
    IF after_g1[1] # generator THEN "InvalidGenerator"
    ELSE IF after_g2[1] # generator THEN "InvalidGenerator"
    ELSE OkErr

\* The checks over the elements of the buffer: the power ratios of the
\* four vectors in full mode, the elements being nonzero in chunked mode.
verification_elements(output, parameters) ==
    LET g1_check == read_initial_elements(output.tau_g1, parameters)
        g2_check == read_initial_elements(output.tau_g2, parameters) IN
    IF parameters.contribution_mode = "Chunked"
    THEN IF chunk_elements_nonzero(output, parameters) THEN OkErr ELSE "PointAtInfinity"
    ELSE IF ~check_power_ratios(output.tau_g1, g2_check) THEN "InvalidRatio"
    ELSE IF ~check_power_ratios_g2(output.tau_g2, g1_check) THEN "InvalidRatio"
    ELSE IF ~check_power_ratios(output.alpha_g1, g2_check) THEN "InvalidRatio"
    ELSE IF ~check_power_ratios(output.beta_g1, g2_check) THEN "InvalidRatio"
    ELSE OkErr

\* A verification that compares the first power of tau in G1 with the pair
\* of input and output the other way round.
verification_swapped(input, output, key, digest, parameters) ==
    LET s == compute_g2_s_key(digest) IN
    IF verification_initial(input, output, key, digest, parameters) # OkErr
    THEN verification_initial(input, output, key, digest, parameters)
    ELSE IF ~check_same_ratio(<<output.tau_g1[2], input.tau_g1[2]>>, <<s.tau, key.tau_g2>>)
         THEN "InvalidRatio"
    ELSE verification_elements(output, parameters)

\* A verification that takes the first branch for every chunk.
verification_every_chunk(input, output, key, digest, parameters) ==
    IF verification_initial(input, output, key, digest, FullParameters) # OkErr
    THEN verification_initial(input, output, key, digest, FullParameters)
    ELSE verification_elements(output, parameters)

\* Phase1::verification, Groth16: the first branch in full mode or for
\* chunk 0, the second for a later chunk, then the checks over the elements.
verification(input, output, key, digest, parameters) ==
    LET initial ==
            IF parameters.contribution_mode = "Full" \/ parameters.chunk_index = 0
            THEN verification_initial(input, output, key, digest, parameters)
            ELSE verification_later_chunk(output, parameters) IN
    IF initial # OkErr THEN initial ELSE verification_elements(output, parameters)

---------------------------------------------------------------------------
(* Aggregation of a round (commands/aggregation.rs) *)

\* The sizes of Phase1Parameters, for a chunk (phase1_chunked_parameters)
\* and for the whole round (round_filesize): a compressed contribution is
\* smaller than the accumulator and ends with the public key.
ChunkedSizes == [accumulator_size |-> 4, contribution_size |-> 3, public_key_size |-> 1]
RoundSizes == [accumulator_size |-> 8, contribution_size |-> 6, public_key_size |-> 1]

\* contribution_filesize! and round_filesize!
filesize(parameters, compressed, init) ==
    IF compressed /\ init THEN parameters.contribution_size - parameters.public_key_size
    ELSE IF compressed THEN parameters.contribution_size
    ELSE parameters.accumulator_size

contribution_filesize(compressed, init) == filesize(ChunkedSizes, compressed, init)
round_filesize(compressed, init) == filesize(RoundSizes, compressed, init)

\* A file that is not there, and a file of len bytes.
Absent == [present |-> FALSE, len |-> 0]
FileOfLen(len) == [present |-> TRUE, len |-> len]

\* Aggregation::readers, chunk by chunk from chunk c on: the current
\* contribution id of the chunk is compared with that of chunk 0, the
\* file of the contribution is opened (a missing file panics) and its
\* length is compared with the expected one.
RECURSIVE readers_from(_, _, _)
readers_from(env, round, c) ==
    IF c = NumberOfChunks THEN OkErr
    ELSE LET is_initial == round.height = 0
             compressed == ~is_initial /\ env.compressed_outputs IN
         IF c # 0 /\ round.contribution_id[0] # round.contribution_id[c]
         THEN "NumberOfContributionsDiffer"
         ELSE IF ~env.contribution[c].present THEN "Panic"
         ELSE IF env.contribution[c].len # contribution_filesize(compressed, is_initial)
              THEN "ContributionFileSizeMismatch"
              ELSE readers_from(env, round, c + 1)

readers(env, round) == readers_from(env, round, 0)

\* Aggregation::writer: the round file must not exist; it is created with
\* the round size.
writer(env, round) ==
    LET is_initial == round.height = 0
        compressed == ~is_initial /\ env.compressed_inputs IN
    IF env.round.present THEN [err |-> "RoundLocatorAlreadyExists", env |-> env]
    ELSE [err |-> OkErr,
          env |-> [env EXCEPT !.round = FileOfLen(round_filesize(compressed, is_initial))]]

\* An Aggregation::run that opens the round file before it reads the
\* contributions.
run_writer_first(env, round, passes) ==
    LET w == writer(env, round) IN
    IF w.err # OkErr THEN w
    ELSE IF readers(env, round) # OkErr THEN [err |-> readers(env, round), env |-> w.env]
    ELSE IF passes THEN w
    ELSE [err |-> "RoundAggregationFailed", env |-> w.env]

\* Aggregation::run: readers, writer, then Phase1::aggregation, which
\* passes or fails.
run(env, round, passes) ==
    IF readers(env, round) # OkErr THEN [err |-> readers(env, round), env |-> env]
    ELSE LET w == writer(env, round) IN
         IF w.err # OkErr THEN w
         ELSE IF passes THEN w
         ELSE [err |-> "RoundAggregationFailed", env |-> w.env]

---------------------------------------------------------------------------
(* The verifier client (setup1-verifier/src/coordinator_requests.rs) *)

\* What a request to the coordinator comes to: the request fails, the
\* response has a status that is not a success, the body of a successful
\* response cannot be read or decoded, or the response is read.
Outcomes == {"failed", "status", "body", "ok"}

\* The requests of coordinator_requests.rs: FailedRequest for a request that
\* failed, the error of the request for a status that is not a success,
\* VerifierError::Crate (From<reqwest::Error>, From<serde_json::Error>) for
\* a body that cannot be read.
request(outcome, on_status) ==
    IF outcome = "failed" THEN "FailedRequest"
    ELSE IF outcome = "status" THEN on_status
    ELSE IF outcome = "body" THEN "Crate"
    ELSE OkErr

lock_chunk(outcome) == request(outcome, "FailedLock")
download_response_file(outcome) == request(outcome, "FailedResponseDownload")
download_challenge_file(outcome) == request(outcome, "FailedChallengeDownload")
upload_next_challenge_locator_file(outcome) == request(outcome, "FailedChallengeUpload")
coordinator_verify_contribution(outcome) == request(outcome, "FailedVerification")

\* The verification the client runs on the files it downloaded: the hash
\* stored in the next challenge is the hash of the response, or not.
verify_locally(outcome) == IF outcome = "ok" THEN OkErr ELSE "MismatchedResponseHashes"

\* The steps of the client on one chunk, in their order.
VerifierSteps ==
    <<"lock", "download_response", "download_challenge", "verify", "upload", "try_verify">>

\* What a step returns.
step_result(step, outcome) ==
    CASE step = "lock" -> lock_chunk(outcome)
      [] step = "download_response" -> download_response_file(outcome)
      [] step = "download_challenge" -> download_challenge_file(outcome)
      [] step = "verify" -> verify_locally(outcome)
      [] step = "upload" -> upload_next_challenge_locator_file(outcome)
      [] step = "try_verify" -> coordinator_verify_contribution(outcome)

\* A client that sends try_verify right after its own verification and
\* uploads the next challenge after it.
try_verify_first(verifier_, chunk, outcome) ==
    LET order == <<"lock", "download_response", "download_challenge", "verify", "try_verify", "upload">>
        step == order[verifier_.next]
        res == step_result(step, outcome)
        sent == Append(verifier_.sent, [step |-> step, chunk |-> chunk, res |-> res]) IN
    IF res # OkErr
    THEN [verifier_ EXCEPT !.next = 1, !.sent = sent, !.error = res]
    ELSE [verifier_ EXCEPT
              !.next = IF verifier_.next = Len(order) THEN 1 ELSE verifier_.next + 1,
              !.chunk = chunk,
              !.sent = sent,
              !.error = OkErr,
              !.uploaded = IF step = "upload" THEN verifier_.uploaded \cup {chunk} ELSE verifier_.uploaded,
              !.requested = IF step = "try_verify" THEN verifier_.requested \cup {chunk}
                            ELSE verifier_.requested]

\* One step of the client's loop: the step is performed; an error ends the
\* work on the chunk and is returned, a success leads to the next step and,
\* after try_verify, to the lock of another chunk.
verifier_step(verifier_, chunk, outcome) ==
    LET step == VerifierSteps[verifier_.next]
        res == step_result(step, outcome)
        sent == Append(verifier_.sent, [step |-> step, chunk |-> chunk, res |-> res]) IN
    IF res # OkErr
    THEN [verifier_ EXCEPT !.next = 1, !.sent = sent, !.error = res]
    ELSE [verifier_ EXCEPT
              !.next = IF verifier_.next = Len(VerifierSteps) THEN 1 ELSE verifier_.next + 1,
              !.chunk = chunk,
              !.sent = sent,
              !.error = OkErr,
              !.uploaded = IF step = "upload" THEN verifier_.uploaded \cup {chunk} ELSE verifier_.uploaded,
              !.requested = IF step = "try_verify" THEN verifier_.requested \cup {chunk}
                            ELSE verifier_.requested]

---------------------------------------------------------------------------
(* State *)

VARIABLES
    roundHeight,    \* storage[Key::RoundHeight]: <<>> when absent, <<h>> when set
    rounds,         \* storage[Key::Round(h)], NoRound when absent
    files,          \* the contribution files on disk
    roundFiles,     \* the heights whose aggregated round file is on disk
    inFlight,       \* the next_round call that has started and not returned
    conv,           \* a locator, the path it was given and the locator read back
    disk,           \* the Disk store: manifest, object map, directory, last call
    transcript,     \* the accumulator under contribution, the key and the verdict
    aggregated,     \* the files an aggregation finds, the round file and the result
    verifier        \* the verifier client: its step, its chunk and the requests it sent

vars == <<roundHeight, rounds, files, roundFiles, inFlight, conv, disk, transcript, aggregated, verifier>>

\* The storage and disk as one value, threaded through a handler's steps.
State == [height |-> roundHeight, rounds |-> rounds, files |-> files, roundFiles |-> roundFiles]

---------------------------------------------------------------------------
(* Coordinator: reads *)

\* Coordinator::current_round_height
current_round_height(st) ==
    IF st.height # <<>> /\ st.height[1] # 0
    THEN IF st.rounds[st.height[1]] # NoRound
         THEN Ok(st, st.height[1])
         ELSE Err(st, "StorageFailed")
    ELSE Ok(st, 0)

\* Coordinator::get_round
get_round(st, h) ==
    IF h \in Heights /\ st.rounds[h] # NoRound
    THEN [err |-> OkErr, round |-> st.rounds[h]]
    ELSE [err |-> "RoundDoesNotExist", round |-> NoRound]

\* Coordinator::current_round
current_round(st) ==
    LET rh == current_round_height(st) IN
    IF rh.err # OkErr THEN [err |-> rh.err, round |-> NoRound]
    ELSE LET r == get_round(st, rh.val) IN
         IF r.err # OkErr THEN r
         ELSE IF r.round.height = rh.val THEN r
              ELSE [err |-> "RoundHeightMismatch", round |-> NoRound]

\* Coordinator::is_current_contributor
is_current_contributor(st, p) ==
    IF is_verifier(p) THEN FALSE
    ELSE LET r == current_round(st) IN
         IF r.err = OkErr THEN is_authorized_contributor(r.round, p) ELSE FALSE

\* Coordinator::is_current_verifier
is_current_verifier(st, p) ==
    IF is_contributor(p) THEN FALSE
    ELSE LET r == current_round(st) IN
         IF r.err = OkErr THEN is_authorized_verifier(r.round, p) ELSE FALSE

\* storage.get_mut(&Key::Round(round_height)), then the write back of the round
put_round(st, h, round) == [st EXCEPT !.rounds[h] = round]

---------------------------------------------------------------------------
(* Coordinator: try_lock_chunk, try_lock_verify *)

\* A try_lock_chunk that hands the chunk over without asking the round: the
\* lock properties below do not survive it.
try_lock_chunk_steals(st, c, p) ==
    LET rh == current_round_height(st) IN
    IF rh.err # OkErr THEN Err(st, rh.err)
    ELSE IF st.rounds[rh.val] = NoRound THEN Err(st, "RoundDoesNotExist")
    ELSE Ok([st EXCEPT !.rounds[rh.val].chunks[c].lock_holder = p], 0)

\* A try_lock_chunk that takes the lock on a copy of the round (get_round)
\* and answers from it, the stored round left as it was.
try_lock_chunk_on_clone(st, c, p) ==
    LET rh == current_round_height(st) IN
    IF rh.err # OkErr THEN Err(st, rh.err)
    ELSE LET r == get_round(st, rh.val) IN
         IF r.err # OkErr THEN Err(st, r.err)
         ELSE IF r.round.height # rh.val THEN Err(st, "RoundHeightMismatch")
         ELSE LET l == round_try_lock_chunk(r.round, c, p) IN
              IF l.err # OkErr THEN Err(st, l.err) ELSE Ok(st, 0)

\* A re-entrant try_lock_chunk: the holder asking again is told Ok.
try_lock_chunk_reentrant(st, c, p) ==
    LET rh == current_round_height(st) IN
    IF rh.err # OkErr THEN Err(st, rh.err)
    ELSE LET h == rh.val IN
         IF st.rounds[h] = NoRound THEN Err(st, "RoundDoesNotExist")
         ELSE IF st.rounds[h].height # h THEN Err(st, "RoundHeightMismatch")
         ELSE IF is_chunk_locked_by(st.rounds[h], c, p) THEN Ok(st, 0)
         ELSE LET r == round_try_lock_chunk(st.rounds[h], c, p) IN
              IF r.err # OkErr THEN Err(st, r.err)
              ELSE Ok(put_round(st, h, r.round), 0)

\* A try_lock_chunk that decides chunk by chunk: the locks the participant
\* holds on the other chunks of the round are not looked at.
try_lock_chunk_per_chunk(st, c, p) ==
    LET rh == current_round_height(st) IN
    IF rh.err # OkErr THEN Err(st, rh.err)
    ELSE LET h == rh.val IN
         IF st.rounds[h] = NoRound THEN Err(st, "RoundDoesNotExist")
         ELSE IF st.rounds[h].height # h THEN Err(st, "RoundHeightMismatch")
         ELSE LET alone == [st.rounds[h] EXCEPT !.chunks =
                               [d \in ChunkIds |->
                                   IF d # c /\ is_locked_by(st.rounds[h].chunks[d], p)
                                   THEN [st.rounds[h].chunks[d] EXCEPT !.lock_holder = None]
                                   ELSE st.rounds[h].chunks[d]]]
                  r == round_try_lock_chunk(alone, c, p) IN
              IF r.err # OkErr THEN Err(st, r.err)
              ELSE Ok([st EXCEPT !.rounds[h].chunks[c].lock_holder = p], 0)

\* Coordinator::try_lock_chunk
try_lock_chunk(st, c, p) ==
    LET rh == current_round_height(st) IN
    IF rh.err # OkErr THEN Err(st, rh.err)
    ELSE LET h == rh.val IN
         IF st.rounds[h] = NoRound THEN Err(st, "RoundDoesNotExist")
         ELSE IF st.rounds[h].height # h THEN Err(st, "RoundHeightMismatch")
         ELSE LET r == round_try_lock_chunk(st.rounds[h], c, p) IN
              IF r.err # OkErr THEN Err(st, r.err)
              ELSE Ok(put_round(st, h, r.round), 0)

\* Coordinator::try_lock_verify
try_lock_verify(st, c, id, p) ==
    IF ~is_verifier(p) THEN Err(st, "ExpectedVerifier")
    ELSE LET rh == current_round_height(st) IN
    IF rh.err # OkErr THEN Err(st, rh.err)
    ELSE LET h == rh.val IN
         IF ~contribution_locator_exists(st, h, c, id) THEN Err(st, "ContributionLocatorMissing")
         ELSE IF st.rounds[h] = NoRound THEN Err(st, "RoundDoesNotExist")
         ELSE IF st.rounds[h].height # h THEN Err(st, "RoundHeightMismatch")
         ELSE LET r == round_try_lock_chunk(st.rounds[h], c, p) IN
              IF r.err # OkErr THEN Err(st, r.err)
              ELSE Ok(put_round(st, h, r.round), 0)

---------------------------------------------------------------------------
(* Coordinator: run_computation, add_contribution *)

\* Computation::run: writes the contributor's response at the contribution locator.
computation_run(st, h, c, id) ==
    [st EXCEPT !.files = st.files \cup {contribution_locator(h, c, id)}]

\* Coordinator::run_computation
run_computation(st, c, id, p) ==
    LET rh == current_round_height(st) IN
    IF rh.err # OkErr THEN Err(st, rh.err)
    ELSE LET h == rh.val
             r == get_round(st, h) IN
         IF r.err # OkErr THEN Err(st, r.err)
         ELSE IF ~is_chunk_locked_by(r.round, c, p) THEN Err(st, "ChunkNotLockedOrByWrongParticipant")
         ELSE IF contribution_locator_exists(st, h, c, id) THEN Err(st, "ContributionLocatorAlreadyExists")
         ELSE IF has_contribution(r.round.chunks[c], id) THEN Err(st, "ContributionShouldNotExist")
         ELSE Ok(computation_run(st, h, c, id), 0)

\* Coordinator::next_contribution_locator_unchecked
next_contribution_locator_unchecked(st, c) ==
    LET rh == current_round_height(st)
        r == current_round(st) IN
    IF rh.err # OkErr THEN Err(st, rh.err)
    ELSE IF r.err # OkErr THEN Err(st, r.err)
    ELSE LET n == next_contribution_id(r.round.chunks[c], expected_num_contributions(r.round)) IN
         IF n.err # OkErr THEN Err(st, n.err)
         ELSE Ok(st, contribution_locator(rh.val, c, n.val))

\* A next_contribution_locator that does not look for the file of the next
\* contribution.
next_contribution_locator_no_file_check(st, c) ==
    LET rh == current_round_height(st)
        r == current_round(st) IN
    IF rh.err # OkErr THEN Err(st, rh.err)
    ELSE IF r.err # OkErr THEN Err(st, r.err)
    ELSE LET n == next_contribution_id(r.round.chunks[c], expected_num_contributions(r.round)) IN
         IF n.err # OkErr THEN Err(st, n.err)
         ELSE Ok(st, contribution_locator(rh.val, c, n.val))

\* Coordinator::next_contribution_locator. It takes the chunk id only: no
\* participant is named and the lock of the chunk is not consulted.
next_contribution_locator(st, c) ==
    LET rh == current_round_height(st)
        r == current_round(st) IN
    IF rh.err # OkErr THEN Err(st, rh.err)
    ELSE IF r.err # OkErr THEN Err(st, r.err)
    ELSE LET n == next_contribution_id(r.round.chunks[c], expected_num_contributions(r.round)) IN
         IF n.err # OkErr THEN Err(st, n.err)
         ELSE IF contribution_locator_exists(st, rh.val, c, n.val)
              THEN Err(st, "ContributionLocatorAlreadyExists")
              ELSE Ok(st, contribution_locator(rh.val, c, n.val))

\* An add_contribution that appends to the round it read (the clone returned
\* by get_round) and never writes it back to storage.
add_contribution_on_clone(st, c, p) ==
    IF ~is_contributor(p) THEN Err(st, "UnauthorizedChunkContributor")
    ELSE IF ~is_current_contributor(st, p) THEN Err(st, "UnauthorizedChunkContributor")
    ELSE LET rh == current_round_height(st) IN
    IF rh.err # OkErr THEN Err(st, rh.err)
    ELSE IF rh.val = 0 THEN Err(st, "RoundHeightIsZero")
    ELSE LET r == get_round(st, rh.val) IN
    IF r.err # OkErr THEN Err(st, r.err)
    ELSE IF ~is_chunk_locked_by(r.round, c, p) THEN Err(st, "ChunkNotLockedOrByWrongParticipant")
    ELSE LET n == expected_num_contributions(r.round)
             next == next_contribution_id(r.round.chunks[c], n) IN
    IF next.err # OkErr THEN Err(st, next.err)
    ELSE LET a == chunk_add_contribution(r.round, c, next.val, p, contribution_locator(rh.val, c, next.val), n) IN
         IF a.err # OkErr THEN Err(st, a.err)
         ELSE Ok(st, next.val)

\* An add_contribution that writes the new contribution over the current one
\* of the chunk instead of after it.
add_contribution_replaces_tail(st, c, p) ==
    IF ~is_contributor(p) THEN Err(st, "UnauthorizedChunkContributor")
    ELSE IF ~is_current_contributor(st, p) THEN Err(st, "UnauthorizedChunkContributor")
    ELSE LET rh == current_round_height(st) IN
    IF rh.err # OkErr THEN Err(st, rh.err)
    ELSE IF rh.val = 0 THEN Err(st, "RoundHeightIsZero")
    ELSE LET h == rh.val
             r == get_round(st, h) IN
    IF r.err # OkErr THEN Err(st, r.err)
    ELSE IF ~is_chunk_locked_by(r.round, c, p) THEN Err(st, "ChunkNotLockedOrByWrongParticipant")
    ELSE LET chunk == r.round.chunks[c]
             next == next_contribution_id(chunk, expected_num_contributions(r.round)) IN
    IF next.err # OkErr THEN Err(st, next.err)
    ELSE Ok([st EXCEPT !.rounds[h].chunks[c] =
                [lock_holder |-> None,
                 contributions |->
                    [chunk.contributions EXCEPT ![Len(chunk.contributions)] =
                        NewContribution(next.val, p, contribution_locator(h, c, next.val))]]],
            next.val)

\* Coordinator::add_contribution
add_contribution(st, c, p) ==
    IF ~is_contributor(p) THEN Err(st, "UnauthorizedChunkContributor")
    ELSE IF ~is_current_contributor(st, p) THEN Err(st, "UnauthorizedChunkContributor")
    ELSE LET rh == current_round_height(st) IN
    IF rh.err # OkErr THEN Err(st, rh.err)
    ELSE IF rh.val = 0 THEN Err(st, "RoundHeightIsZero")
    ELSE LET h == rh.val
             r == get_round(st, h) IN
    IF r.err # OkErr THEN Err(st, r.err)
    ELSE IF ~is_chunk_locked_by(r.round, c, p) THEN Err(st, "ChunkNotLockedOrByWrongParticipant")
    ELSE LET n == expected_num_contributions(r.round)
             cr == current_round(st) IN
    IF cr.err # OkErr THEN Err(st, cr.err)
    ELSE LET next == next_contribution_id(cr.round.chunks[c], n) IN
    IF next.err # OkErr THEN Err(st, next.err)
    ELSE LET loc == next_contribution_locator_unchecked(st, c) IN
    IF loc.err # OkErr THEN Err(st, loc.err)
    ELSE IF st.rounds[h] = NoRound THEN Err(st, "RoundDoesNotExist")
    ELSE IF st.rounds[h].height # h THEN Err(st, "RoundHeightMismatch")
    ELSE LET a == chunk_add_contribution(st.rounds[h], c, next.val, p, loc.val, n) IN
         IF a.err # OkErr THEN Err(st, a.err)
         ELSE Ok(put_round(st, h, a.round), next.val)

\* Coordinator::try_lock_chunk from storage_mut() on: the part that runs
\* under the write lock, with the height read before the lock was taken.
try_lock_chunk_locked(st, round_height, c, p) ==
    IF st.rounds[round_height] = NoRound THEN Err(st, "RoundDoesNotExist")
    ELSE IF st.rounds[round_height].height # round_height THEN Err(st, "RoundHeightMismatch")
    ELSE LET r == round_try_lock_chunk(st.rounds[round_height], c, p) IN
         IF r.err # OkErr THEN Err(st, r.err)
         ELSE Ok(put_round(st, round_height, r.round), 0)

\* Coordinator::add_contribution up to storage_mut(): the checks, each under
\* a read lock of its own, and what they leave in the local variables.
add_contribution_checks(st, c, p) ==
    IF ~is_contributor(p) THEN Err(st, "UnauthorizedChunkContributor")
    ELSE IF ~is_current_contributor(st, p) THEN Err(st, "UnauthorizedChunkContributor")
    ELSE LET rh == current_round_height(st) IN
    IF rh.err # OkErr THEN Err(st, rh.err)
    ELSE IF rh.val = 0 THEN Err(st, "RoundHeightIsZero")
    ELSE LET h == rh.val
             r == get_round(st, h) IN
    IF r.err # OkErr THEN Err(st, r.err)
    ELSE IF ~is_chunk_locked_by(r.round, c, p) THEN Err(st, "ChunkNotLockedOrByWrongParticipant")
    ELSE LET n == expected_num_contributions(r.round)
             cr == current_round(st) IN
    IF cr.err # OkErr THEN Err(st, cr.err)
    ELSE LET next == next_contribution_id(cr.round.chunks[c], n) IN
    IF next.err # OkErr THEN Err(st, next.err)
    ELSE LET loc == next_contribution_locator_unchecked(st, c) IN
    IF loc.err # OkErr THEN Err(st, loc.err)
    ELSE Ok(st, [round_height |-> h,
                 next_contribution_id |-> next.val,
                 next_contributed_locator |-> loc.val,
                 expected_num_contributions |-> n])

\* Coordinator::add_contribution from storage_mut() on.
add_contribution_locked(st, c, p, local) ==
    LET h == local.round_height IN
    IF st.rounds[h] = NoRound THEN Err(st, "RoundDoesNotExist")
    ELSE IF st.rounds[h].height # h THEN Err(st, "RoundHeightMismatch")
    ELSE LET a == chunk_add_contribution(st.rounds[h], c, local.next_contribution_id, p,
                                         local.next_contributed_locator,
                                         local.expected_num_contributions) IN
         IF a.err # OkErr THEN Err(st, a.err)
         ELSE Ok(put_round(st, h, a.round), local.next_contribution_id)

---------------------------------------------------------------------------
(* Coordinator: next_round, run_aggregation, run_initialization *)

\* A save_round_to_storage that records the new height and loses the round.
save_round_to_storage_height_only(st, h, round) ==
    Ok([st EXCEPT !.height = <<h>>], 0)

\* Coordinator::save_round_to_storage
save_round_to_storage(st, h, round) ==
    Ok([st EXCEPT !.rounds[h] = round, !.height = <<h>>], 0)

\* Aggregation::readers: every chunk is at the same contribution id and its
\* current contribution file opens.
aggregation_readers(st, round) ==
    IF \E c \in ChunkIds :
          current_contribution_id(round.chunks[c]) # current_contribution_id(round.chunks[0])
    THEN "NumberOfContributionsDiffer"
    ELSE IF \E c \in ChunkIds :
               ~contribution_locator_exists(st, round.height, c, current_contribution_id(round.chunks[c]))
         THEN "Panic"
         ELSE OkErr

\* Aggregation::run: readers, then writer (the round file must not exist yet).
aggregation_run(st, round) ==
    LET rd == aggregation_readers(st, round) IN
    IF rd # OkErr THEN Err(st, rd)
    ELSE IF round_locator_exists(st, round.height) THEN Err(st, "RoundLocatorAlreadyExists")
    ELSE Ok([st EXCEPT !.roundFiles = st.roundFiles \cup {round.height}], 0)

\* A run_aggregation that leaves the completeness of the round to its caller.
run_aggregation_unchecked(st) ==
    LET cr == current_round(st) IN
    IF cr.err # OkErr THEN Err(st, cr.err)
    ELSE IF ~round_directory_exists(st, cr.round.height) THEN Err(st, "RoundDirectoryMissing")
    ELSE LET a == aggregation_run(st, cr.round) IN
         IF a.err # OkErr THEN a
         ELSE IF ~round_locator_exists(a.st, cr.round.height) THEN Err(a.st, "RoundLocatorMissing")
         ELSE a

\* A run_aggregation that checks the round and aggregates nothing.
run_aggregation_skipped(st) ==
    LET cr == current_round(st) IN
    IF cr.err # OkErr THEN Err(st, cr.err)
    ELSE IF ~is_complete(cr.round) THEN Err(st, "RoundNotComplete")
    ELSE IF ~round_directory_exists(st, cr.round.height) THEN Err(st, "RoundDirectoryMissing")
    ELSE Ok(st, 0)

\* Coordinator::run_aggregation
run_aggregation(st) ==
    LET cr == current_round(st) IN
    IF cr.err # OkErr THEN Err(st, cr.err)
    ELSE IF ~is_complete(cr.round) THEN Err(st, "RoundNotComplete")
    ELSE IF ~round_directory_exists(st, cr.round.height) THEN Err(st, "RoundDirectoryMissing")
    ELSE LET a == aggregation_run(st, cr.round) IN
         IF a.err # OkErr THEN a
         ELSE IF ~round_locator_exists(a.st, cr.round.height) THEN Err(a.st, "RoundLocatorMissing")
         ELSE a

\* Initialization::run on every chunk: contribution 0 of round 0, copied as
\* contribution 0 of round 1.
initialization_run(st, h) ==
    [st EXCEPT !.files = st.files \cup {contribution_locator(hh, c, 0) : hh \in {h, h + 1}, c \in ChunkIds}]

\* A round-0 initialization that writes the initial challenge files and
\* never stores the round it built.
run_initialization_round_0_unsaved(st, h) ==
    LET s1 == IF round_directory_exists(st, h) THEN round_directory_reset(st, h) ELSE st IN
    IF s1.rounds[h] # NoRound THEN Err(s1, "RoundAlreadyInitialized")
    ELSE LET s2 == initialization_run(s1, h) IN
         IF \E c \in ChunkIds : ~contribution_locator_exists(s2, h, c, 0)
                                    \/ ~contribution_locator_exists(s2, h + 1, c, 0)
         THEN Err(s2, "ContributionLocatorMissing")
         ELSE Ok(s2, 0)

\* Coordinator::run_initialization, the part that creates round 0 (round_height = 0)
run_initialization_round_0(st, h) ==
    LET s1 == IF round_directory_exists(st, h) THEN round_directory_reset(st, h) ELSE st IN
    IF s1.rounds[h] # NoRound THEN Err(s1, "RoundAlreadyInitialized")
    ELSE LET round == RoundNew(h, {}, {CoordinatorVerifier})
             s2 == initialization_run(s1, h) IN
         IF \E c \in ChunkIds : ~contribution_locator_exists(s2, h, c, 0)
                                    \/ ~contribution_locator_exists(s2, h + 1, c, 0)
         THEN Err(s2, "ContributionLocatorMissing")
         ELSE LET s3 == save_round_to_storage(s2, h, round) IN
              IF s3.err # OkErr THEN s3
              ELSE LET rh == current_round_height(s3.st) IN
                   IF rh.err # OkErr THEN Err(s3.st, rh.err)
                   ELSE IF rh.val # h THEN Err(s3.st, "RoundHeightMismatch")
                   ELSE s3

\* Coordinator::run_initialization
run_initialization(st, round_height, contributors, verifiers) ==
    LET rh == current_round_height(st) IN
    IF rh.err # OkErr THEN Err(st, rh.err)
    ELSE IF round_height < rh.val THEN Err(st, "RoundAlreadyInitialized")
    ELSE IF round_height # rh.val THEN Err(st, "RoundHeightMismatch")
    ELSE LET i0 == IF round_height = 0 THEN run_initialization_round_0(st, round_height) ELSE Ok(st, 0) IN
    IF i0.err # OkErr THEN i0
    ELSE LET s1 == i0.st
             new_height == round_height + 1 IN
    IF s1.rounds[new_height] # NoRound THEN Err(s1, "RoundAlreadyInitialized")
    ELSE IF \E c \in ChunkIds : ~contribution_locator_exists(s1, new_height, c, 0)
         THEN Err(s1, "ContributionLocatorMissing")
    ELSE save_round_to_storage(s1, new_height, RoundNew(new_height, contributors, verifiers))

\* A next_round that initializes the next round first and looks at the
\* current one afterwards.
next_round_initializes_first(st, contributors, verifiers) ==
    LET rh == current_round_height(st) IN
    IF rh.err # OkErr THEN Err(st, rh.err)
    ELSE LET round_height == rh.val
             next_height == round_height + 1
             cur == get_round(st, round_height)
             init == run_initialization(st, round_height, contributors, verifiers) IN
    IF init.err # OkErr THEN init
    ELSE LET agg == IF round_height = 0 THEN Ok(init.st, 0)
                    ELSE IF cur.err # OkErr THEN Err(init.st, cur.err)
                    ELSE IF ~is_complete(cur.round) THEN Err(init.st, "RoundNotComplete")
                    ELSE aggregation_run(init.st, cur.round) IN
    IF agg.err # OkErr THEN agg
    ELSE Ok(agg.st, next_height)

\* Coordinator::next_round
next_round(st, contributors, verifiers) ==
    LET rh == current_round_height(st) IN
    IF rh.err # OkErr THEN Err(st, rh.err)
    ELSE LET round_height == rh.val
             next_height == round_height + 1
             cur == get_round(st, round_height)
             agg == IF round_height = 0 THEN Ok(st, 0)
                    ELSE IF cur.err # OkErr THEN Err(st, cur.err)
                    ELSE IF ~is_complete(cur.round) THEN Err(st, "RoundNotComplete")
                    ELSE run_aggregation(st) IN
    IF agg.err # OkErr THEN agg
    ELSE LET init == run_initialization(agg.st, round_height, contributors, verifiers) IN
    IF init.err # OkErr THEN init
    ELSE LET nh == current_round_height(init.st) IN
    IF nh.err # OkErr THEN Err(init.st, nh.err)
    ELSE IF nh.val # next_height THEN Err(init.st, "RoundHeightMismatch")
    ELSE Ok(init.st, nh.val)

\* Coordinator::save_round_to_storage when the process stops between its two
\* inserts: the round is in storage, the round height is not updated.
save_round_to_storage_stopped(st, h, round) ==
    Ok([st EXCEPT !.rounds[h] = round], 0)

\* Coordinator::run_initialization when the process stops inside the
\* save_round_to_storage of the new round.
run_initialization_stopped(st, round_height, contributors, verifiers) ==
    LET rh == current_round_height(st) IN
    IF rh.err # OkErr THEN Err(st, rh.err)
    ELSE IF round_height < rh.val THEN Err(st, "RoundAlreadyInitialized")
    ELSE IF round_height # rh.val THEN Err(st, "RoundHeightMismatch")
    ELSE LET i0 == IF round_height = 0 THEN run_initialization_round_0(st, round_height) ELSE Ok(st, 0) IN
    IF i0.err # OkErr THEN i0
    ELSE LET s1 == i0.st
             new_height == round_height + 1 IN
    IF s1.rounds[new_height] # NoRound THEN Err(s1, "RoundAlreadyInitialized")
    ELSE IF \E c \in ChunkIds : ~contribution_locator_exists(s1, new_height, c, 0)
         THEN Err(s1, "ContributionLocatorMissing")
    ELSE save_round_to_storage_stopped(s1, new_height, RoundNew(new_height, contributors, verifiers))

\* Coordinator::next_round when the process stops inside the
\* save_round_to_storage of the new round: nothing of next_round runs after it.
next_round_stopped(st, contributors, verifiers) ==
    LET rh == current_round_height(st) IN
    IF rh.err # OkErr THEN Err(st, rh.err)
    ELSE LET round_height == rh.val
             cur == get_round(st, round_height)
             agg == IF round_height = 0 THEN Ok(st, 0)
                    ELSE IF cur.err # OkErr THEN Err(st, cur.err)
                    ELSE IF ~is_complete(cur.round) THEN Err(st, "RoundNotComplete")
                    ELSE run_aggregation(st) IN
    IF agg.err # OkErr THEN agg
    ELSE run_initialization_stopped(agg.st, round_height, contributors, verifiers)

\* The call of save_round_to_storage that returns false: the insert of the
\* round, the insert of the round height, or the save that follows them.
StorageFailures == {"round", "height", "save"}

\* Coordinator::save_round_to_storage when one of its three storage calls
\* returns false: the calls before it have taken effect, nothing undoes
\* them, and StorageFailed is returned.
save_round_to_storage_failed(st, h, round, at) ==
    IF at = "round" THEN Err(st, "StorageFailed")
    ELSE IF at = "height" THEN Err([st EXCEPT !.rounds[h] = round], "StorageFailed")
    ELSE Err([st EXCEPT !.rounds[h] = round, !.height = <<h>>], "StorageFailed")

\* Coordinator::run_initialization when the save_round_to_storage of the
\* new round fails.
run_initialization_storage_failed(st, round_height, contributors, verifiers, at) ==
    LET rh == current_round_height(st) IN
    IF rh.err # OkErr THEN Err(st, rh.err)
    ELSE IF round_height < rh.val THEN Err(st, "RoundAlreadyInitialized")
    ELSE IF round_height # rh.val THEN Err(st, "RoundHeightMismatch")
    ELSE LET i0 == IF round_height = 0 THEN run_initialization_round_0(st, round_height) ELSE Ok(st, 0) IN
    IF i0.err # OkErr THEN i0
    ELSE LET s1 == i0.st
             new_height == round_height + 1 IN
    IF s1.rounds[new_height] # NoRound THEN Err(s1, "RoundAlreadyInitialized")
    ELSE IF \E c \in ChunkIds : ~contribution_locator_exists(s1, new_height, c, 0)
         THEN Err(s1, "ContributionLocatorMissing")
    ELSE save_round_to_storage_failed(s1, new_height, RoundNew(new_height, contributors, verifiers), at)

\* Coordinator::next_round when the save_round_to_storage of the new round
\* fails: run_initialization returns the error and next_round passes it on.
next_round_storage_failed(st, contributors, verifiers, at) ==
    LET rh == current_round_height(st) IN
    IF rh.err # OkErr THEN Err(st, rh.err)
    ELSE LET round_height == rh.val
             cur == get_round(st, round_height)
             agg == IF round_height = 0 THEN Ok(st, 0)
                    ELSE IF cur.err # OkErr THEN Err(st, cur.err)
                    ELSE IF ~is_complete(cur.round) THEN Err(st, "RoundNotComplete")
                    ELSE run_aggregation(st) IN
    IF agg.err # OkErr THEN agg
    ELSE run_initialization_storage_failed(agg.st, round_height, contributors, verifiers, at)

\* Coordinator::next_round up to its call of run_aggregation: the height is
\* read and, above height 0, the current round is fetched and must be
\* complete. Each read takes the storage lock for itself (storage()).
next_round_begin(st) ==
    LET rh == current_round_height(st) IN
    IF rh.err # OkErr THEN Err(st, rh.err)
    ELSE IF rh.val = 0 THEN Ok(st, 0)
    ELSE LET cur == get_round(st, rh.val) IN
         IF cur.err # OkErr THEN Err(st, cur.err)
         ELSE IF ~is_complete(cur.round) THEN Err(st, "RoundNotComplete")
         ELSE Ok(st, rh.val)

\* Coordinator::next_round from the return of run_initialization on: the
\* height is read again and must be the height read at the start plus one.
next_round_end(st, round_height) ==
    LET nh == current_round_height(st) IN
    IF nh.err # OkErr THEN Err(st, nh.err)
    ELSE IF nh.val # round_height + 1 THEN Err(st, "RoundHeightMismatch")
    ELSE Ok(st, nh.val)

---------------------------------------------------------------------------
(* Coordinator: verify_contribution *)

\* A Verification::run that reports success whatever the transformation did.
verification_run_always_ok(st, h, c, id, previous, current, next, passes) ==
    IF (h = 0 \/ h = 1) /\ id = 0 THEN Err(st, "VerificationOnContributionIdZero")
    ELSE Ok([st EXCEPT !.files = st.files \cup {next}], 0)

\* Verification::run. `passes` is the outcome of transform_pok_and_correctness
\* on the response at `current` against the challenge at `previous` (the
\* pairing checks are outside the coordinator). A panic in it, as on a file
\* that does not open, is caught and reported as VerificationFailed; on
\* success it has written the next challenge at `next`.
verification_run(st, h, c, id, previous, current, next, passes) ==
    IF (h = 0 \/ h = 1) /\ id = 0 THEN Err(st, "VerificationOnContributionIdZero")
    ELSE IF passes /\ previous \in st.files /\ current \in st.files
         THEN Ok([st EXCEPT !.files = st.files \cup {next}], 0)
         ELSE Err(st, "VerificationFailed")

\* A verify_contribution that looks for the contribution file before it looks
\* at the lock.
verify_contribution_locator_first(st, c, id, p, passes) ==
    IF ~is_verifier(p) THEN Err(st, "ExpectedVerifier")
    ELSE LET rh == current_round_height(st) IN
    IF rh.err # OkErr THEN Err(st, rh.err)
    ELSE LET h == rh.val
             r == get_round(st, h) IN
    IF r.err # OkErr THEN Err(st, r.err)
    ELSE IF ~contribution_locator_exists(st, h, c, id) THEN Err(st, "ContributionLocatorMissing")
    ELSE IF ~is_chunk_locked_by(r.round, c, p) THEN Err(st, "ChunkNotLockedOrByWrongParticipant")
    ELSE LET chunk == r.round.chunks[c] IN
    IF ~has_contribution(chunk, id) THEN Err(st, "ContributionMissing")
    ELSE IF get_contribution(chunk, id).verified THEN Err(st, "ContributionAlreadyVerified")
    ELSE LET next == IF only_contributions_complete(chunk, expected_num_contributions(r.round))
                     THEN contribution_locator(h + 1, c, 0)
                     ELSE contribution_locator(h, c, id + 1)
             v == verification_run(st, h, c, id, contribution_locator(h, c, id - 1),
                                   contribution_locator(h, c, id), next, passes) IN
    IF v.err # OkErr THEN Err(st, v.err)
    ELSE LET m == round_verify_contribution(v.st.rounds[h], c, id, p, contribution_locator(h, c, id)) IN
         IF m.err # OkErr THEN Err(v.st, m.err)
         ELSE Ok(put_round(v.st, h, m.round), 0)

\* A verify_contribution that starts the next round by itself, with the same
\* participants, once its verification completes the round.
verify_contribution_advances(st, c, id, p, passes) ==
    IF ~is_verifier(p) THEN Err(st, "ExpectedVerifier")
    ELSE LET rh == current_round_height(st) IN
    IF rh.err # OkErr THEN Err(st, rh.err)
    ELSE LET h == rh.val
             r == get_round(st, h) IN
    IF r.err # OkErr THEN Err(st, r.err)
    ELSE IF ~is_chunk_locked_by(r.round, c, p) THEN Err(st, "ChunkNotLockedOrByWrongParticipant")
    ELSE IF ~contribution_locator_exists(st, h, c, id) THEN Err(st, "ContributionLocatorMissing")
    ELSE LET chunk == r.round.chunks[c] IN
    IF ~has_contribution(chunk, id) THEN Err(st, "ContributionMissing")
    ELSE IF get_contribution(chunk, id).verified THEN Err(st, "ContributionAlreadyVerified")
    ELSE LET next == IF only_contributions_complete(chunk, expected_num_contributions(r.round))
                     THEN contribution_locator(h + 1, c, 0)
                     ELSE contribution_locator(h, c, id + 1)
             v == verification_run(st, h, c, id, contribution_locator(h, c, id - 1),
                                   contribution_locator(h, c, id), next, passes) IN
    IF v.err # OkErr THEN Err(st, v.err)
    ELSE LET m == round_verify_contribution(v.st.rounds[h], c, id, p, contribution_locator(h, c, id)) IN
         IF m.err # OkErr THEN Err(v.st, m.err)
         ELSE LET done == put_round(v.st, h, m.round) IN
              IF is_complete(m.round) /\ h < MaxHeight
              THEN Ok(next_round(done, m.round.contributors, m.round.verifiers).st, 0)
              ELSE Ok(done, 0)

\* A verify_contribution that sets the verified flag of the stored
\* contribution itself, without the verifier and locator that
\* Round::verify_contribution records.
verify_contribution_flag_only(st, c, id, p, passes) ==
    IF ~is_verifier(p) THEN Err(st, "ExpectedVerifier")
    ELSE LET rh == current_round_height(st) IN
    IF rh.err # OkErr THEN Err(st, rh.err)
    ELSE LET h == rh.val
             r == get_round(st, h) IN
    IF r.err # OkErr THEN Err(st, r.err)
    ELSE IF ~is_chunk_locked_by(r.round, c, p) THEN Err(st, "ChunkNotLockedOrByWrongParticipant")
    ELSE IF ~contribution_locator_exists(st, h, c, id) THEN Err(st, "ContributionLocatorMissing")
    ELSE LET chunk == r.round.chunks[c] IN
    IF ~has_contribution(chunk, id) THEN Err(st, "ContributionMissing")
    ELSE IF get_contribution(chunk, id).verified THEN Err(st, "ContributionAlreadyVerified")
    ELSE LET next == IF only_contributions_complete(chunk, expected_num_contributions(r.round))
                     THEN contribution_locator(h + 1, c, 0)
                     ELSE contribution_locator(h, c, id + 1)
             v == verification_run(st, h, c, id, contribution_locator(h, c, id - 1),
                                   contribution_locator(h, c, id), next, passes) IN
    IF v.err # OkErr THEN Err(st, v.err)
    ELSE Ok([v.st EXCEPT !.rounds[h].chunks[c] =
                [lock_holder |-> None,
                 contributions |->
                    [i \in 1 .. Len(chunk.contributions) |->
                        IF chunk.contributions[i].id = id
                        THEN [chunk.contributions[i] EXCEPT !.verified = TRUE]
                        ELSE chunk.contributions[i]]]], 0)

\* A verify_contribution that does not look at the verified flag before it
\* runs the verification.
verify_contribution_reverifies(st, c, id, p, passes) ==
    IF ~is_verifier(p) THEN Err(st, "ExpectedVerifier")
    ELSE LET rh == current_round_height(st) IN
    IF rh.err # OkErr THEN Err(st, rh.err)
    ELSE LET h == rh.val
             r == get_round(st, h) IN
    IF r.err # OkErr THEN Err(st, r.err)
    ELSE IF ~is_chunk_locked_by(r.round, c, p) THEN Err(st, "ChunkNotLockedOrByWrongParticipant")
    ELSE IF ~contribution_locator_exists(st, h, c, id) THEN Err(st, "ContributionLocatorMissing")
    ELSE LET chunk == r.round.chunks[c] IN
    IF ~has_contribution(chunk, id) THEN Err(st, "ContributionMissing")
    ELSE LET next == IF only_contributions_complete(chunk, expected_num_contributions(r.round))
                     THEN contribution_locator(h + 1, c, 0)
                     ELSE contribution_locator(h, c, id + 1)
             v == verification_run(st, h, c, id, contribution_locator(h, c, id - 1),
                                   contribution_locator(h, c, id), next, passes) IN
    IF v.err # OkErr THEN Err(st, v.err)
    ELSE LET m == round_verify_contribution(v.st.rounds[h], c, id, p, contribution_locator(h, c, id)) IN
         IF m.err # OkErr THEN Err(v.st, m.err)
         ELSE Ok(put_round(v.st, h, m.round), 0)

\* A verify_contribution that marks the contribution verified and leaves the
\* chunk locked by the verifier.
verify_contribution_keeps_lock(st, c, id, p, passes) ==
    IF ~is_verifier(p) THEN Err(st, "ExpectedVerifier")
    ELSE LET rh == current_round_height(st) IN
    IF rh.err # OkErr THEN Err(st, rh.err)
    ELSE LET h == rh.val
             r == get_round(st, h) IN
    IF r.err # OkErr THEN Err(st, r.err)
    ELSE IF ~is_chunk_locked_by(r.round, c, p) THEN Err(st, "ChunkNotLockedOrByWrongParticipant")
    ELSE IF ~contribution_locator_exists(st, h, c, id) THEN Err(st, "ContributionLocatorMissing")
    ELSE LET chunk == r.round.chunks[c] IN
    IF ~has_contribution(chunk, id) THEN Err(st, "ContributionMissing")
    ELSE IF get_contribution(chunk, id).verified THEN Err(st, "ContributionAlreadyVerified")
    ELSE LET previous == contribution_locator(h, c, id - 1)
             current == contribution_locator(h, c, id)
             next == IF only_contributions_complete(chunk, expected_num_contributions(r.round))
                     THEN contribution_locator(h + 1, c, 0)
                     ELSE contribution_locator(h, c, id + 1)
             v == verification_run(st, h, c, id, previous, current, next, passes) IN
    IF v.err # OkErr THEN Err(st, v.err)
    ELSE LET m == round_verify_contribution(v.st.rounds[h], c, id, p, current) IN
         IF m.err # OkErr THEN Err(v.st, m.err)
         ELSE Ok(put_round(v.st, h, [m.round EXCEPT !.chunks[c].lock_holder = p]), 0)

\* Coordinator::verify_contribution
verify_contribution(st, c, id, p, passes) ==
    IF ~is_verifier(p) THEN Err(st, "ExpectedVerifier")
    ELSE LET rh == current_round_height(st) IN
    IF rh.err # OkErr THEN Err(st, rh.err)
    ELSE LET h == rh.val
             r == get_round(st, h) IN
    IF r.err # OkErr THEN Err(st, r.err)
    ELSE IF ~is_chunk_locked_by(r.round, c, p) THEN Err(st, "ChunkNotLockedOrByWrongParticipant")
    ELSE IF ~contribution_locator_exists(st, h, c, id) THEN Err(st, "ContributionLocatorMissing")
    ELSE LET cr == current_round(st) IN
    IF cr.err # OkErr THEN Err(st, cr.err)
    ELSE LET chunk == cr.round.chunks[c] IN
    IF ~has_contribution(chunk, id) THEN Err(st, "ContributionMissing")
    ELSE IF get_contribution(chunk, id).verified THEN Err(st, "ContributionAlreadyVerified")
    ELSE LET previous == contribution_locator(h, c, id - 1)
             current == contribution_locator(h, c, id)
             next == IF only_contributions_complete(chunk, expected_num_contributions(cr.round))
                     THEN contribution_locator(h + 1, c, 0)
                     ELSE contribution_locator(h, c, id + 1)
             v == verification_run(st, h, c, id, previous, current, next, passes) IN
    IF v.err # OkErr THEN Err(st, v.err)
    ELSE IF v.st.rounds[h] = NoRound THEN Err(v.st, "RoundDoesNotExist")
    ELSE IF v.st.rounds[h].height # h THEN Err(v.st, "RoundHeightMismatch")
    ELSE LET m == round_verify_contribution(v.st.rounds[h], c, id, p, current) IN
         IF m.err # OkErr THEN Err(v.st, m.err)
         ELSE Ok(put_round(v.st, h, m.round), 0)

\* Coordinator::verify_contribution up to Verification::run: the checks,
\* each under a read lock of its own, and the locators they choose.
verify_contribution_checks(st, c, id, p) ==
    IF ~is_verifier(p) THEN Err(st, "ExpectedVerifier")
    ELSE LET rh == current_round_height(st) IN
    IF rh.err # OkErr THEN Err(st, rh.err)
    ELSE LET h == rh.val
             r == get_round(st, h) IN
    IF r.err # OkErr THEN Err(st, r.err)
    ELSE IF ~is_chunk_locked_by(r.round, c, p) THEN Err(st, "ChunkNotLockedOrByWrongParticipant")
    ELSE IF ~contribution_locator_exists(st, h, c, id) THEN Err(st, "ContributionLocatorMissing")
    ELSE LET cr == current_round(st) IN
    IF cr.err # OkErr THEN Err(st, cr.err)
    ELSE LET chunk == cr.round.chunks[c] IN
    IF ~has_contribution(chunk, id) THEN Err(st, "ContributionMissing")
    ELSE IF get_contribution(chunk, id).verified THEN Err(st, "ContributionAlreadyVerified")
    ELSE Ok(st, [round_height |-> h,
                 previous |-> contribution_locator(h, c, id - 1),
                 current |-> contribution_locator(h, c, id),
                 next |-> IF only_contributions_complete(chunk, expected_num_contributions(cr.round))
                          THEN contribution_locator(h + 1, c, 0)
                          ELSE contribution_locator(h, c, id + 1)])

\* Coordinator::verify_contribution from storage_mut() on.
verify_contribution_locked(st, c, id, p, local) ==
    LET h == local.round_height IN
    IF st.rounds[h] = NoRound THEN Err(st, "RoundDoesNotExist")
    ELSE IF st.rounds[h].height # h THEN Err(st, "RoundHeightMismatch")
    ELSE LET m == round_verify_contribution(st.rounds[h], c, id, p, local.current) IN
         IF m.err # OkErr THEN Err(st, m.err)
         ELSE Ok(put_round(st, h, m.round), 0)

---------------------------------------------------------------------------
(* Actions: one call to the coordinator each *)

\* The storage and disk after a call, or a step of a call, that returned r.
\* A call that fails before it writes anything leaves them as they were.
Stored(r) ==
    /\ conv' = conv
    /\ aggregated' = aggregated
    /\ verifier' = verifier
    /\ disk' = disk
    /\ transcript' = transcript
    /\ roundHeight' = r.st.height
    /\ rounds' = r.st.rounds
    /\ files' = r.st.files
    /\ roundFiles' = r.st.roundFiles

\* No next_round call in flight.
Idle == [pc |-> "idle", h |-> 0, interleaved |-> FALSE]

\* A call that runs from its first statement to its return with no other
\* call in between.
Returned(r) ==
    /\ Stored(r)
    /\ inFlight' = inFlight

\* Coordinator::new on an empty store (clear_test_transcript)
InitCoordinator ==
    /\ roundHeight = <<>>
    /\ rounds = [h \in Heights |-> NoRound]
    /\ files = {}
    /\ roundFiles = {}
    /\ inFlight = Idle

\* No locator under conversion.
NoConv == [locator |-> <<>>, path |-> <<>>, back |-> LocatorErr("None")]

\* No call made on the store yet.
NoCall == [op |-> "none", locator |-> <<>>, err |-> OkErr]

\* A base directory that does not exist yet, no Disk loaded.
NoDisk ==
    [loaded |-> FALSE,
     manifest |-> {},
     locators |-> [l \in DiskLocators |-> 0],
     dirs |-> {},
     fs |-> [p \in DiskPaths |-> NoFile],
     file |-> [present |-> FALSE, written |-> FALSE, locators |-> {}],
     last |-> NoCall]

\* The initial accumulator, no contribution made to it.
NoKey ==
    [tau_g1 |-> <<0, 0>>, alpha_g1 |-> <<0, 0>>, beta_g1 |-> <<0, 0>>,
     tau_g2 |-> 0, alpha_g2 |-> 0, beta_g2 |-> 0]

\* The verifier client before its first lock request.
NoVerifier ==
    [next |-> 1, chunk |-> 0, sent |-> <<>>, error |-> OkErr, uploaded |-> {}, requested |-> {}]

\* No aggregation called: no file at hand.
NoAggregation ==
    [pc |-> "input",
     round |-> [height |-> 0, contribution_id |-> [c \in ChunkIds |-> 0]],
     env |-> [contribution |-> [c \in ChunkIds |-> Absent],
              round |-> Absent,
              compressed_inputs |-> FALSE,
              compressed_outputs |-> FALSE],
     before |-> Absent,
     res |-> OkErr]

NoTranscript ==
    [pc |-> "input",
     contributions |-> 0,
     input |-> initialization,
     digest |-> calculate_hash(initialization),
     pubkey |-> NoKey,
     output |-> initialization,
     parameters |-> FullParameters,
     used |-> calculate_hash(initialization),
     res |-> OkErr]

Init ==
    /\ InitCoordinator
    /\ conv = NoConv
    /\ disk = NoDisk
    /\ transcript = NoTranscript
    /\ aggregated = NoAggregation
    /\ verifier = NoVerifier

\* The contribution ids a caller names for chunk c: the current one of the
\* chunk (to verify it) and the one after it (to compute it).
CurrentIdOf(st, c) ==
    LET cr == current_round(st) IN
    IF cr.err = OkErr THEN current_contribution_id(cr.round.chunks[c]) ELSE 0

TryLockChunk(c, p) == Returned(try_lock_chunk(State, c, p))

TryLockVerify(c, p) == Returned(try_lock_verify(State, c, CurrentIdOf(State, c), p))

RunComputation(c, p) == Returned(run_computation(State, c, CurrentIdOf(State, c) + 1, p))

AddContribution(c, p) == Returned(add_contribution(State, c, p))

VerifyContribution(c, p, passes) ==
    Returned(verify_contribution(State, c, CurrentIdOf(State, c), p, passes))

NextRound(cs, vs) ==
    /\ current_round_height(State).val < MaxHeight
    /\ Returned(next_round(State, cs, vs))

Next ==
    \/ \E c \in ChunkIds, p \in Participants : TryLockChunk(c, p)
    \/ \E c \in ChunkIds, p \in Participants : TryLockVerify(c, p)
    \/ \E c \in ChunkIds, p \in ContributorIds : RunComputation(c, p)
    \/ \E c \in ChunkIds, p \in Participants : AddContribution(c, p)
    \/ \E c \in ChunkIds, p \in Participants, passes \in BOOLEAN : VerifyContribution(c, p, passes)
    \/ \E cs \in ContributorSets, vs \in VerifierSets : NextRound(cs, vs)

Spec == Init /\ [][Next]_vars

\* The ceremony run by participants that follow the protocol: a contributor
\* locks a chunk, computes its contribution and adds it once the contribution
\* file is there; a verifier locks a chunk for its current contribution and
\* verifies it, and the verification passes; the operator opens every round
\* with a non-empty list of contributors.
ContributorLocks(c, p) == TryLockChunk(c, p)

ContributorComputes(c, p) == RunComputation(c, p)

ContributorAdds(c, p) ==
    /\ current_round(State).err = OkErr
    /\ contribution_locator_exists(State, current_round_height(State).val, c, CurrentIdOf(State, c) + 1)
    /\ AddContribution(c, p)

VerifierLocks(c, p) == TryLockVerify(c, p)

VerifierAccepts(c, p) == VerifyContribution(c, p, TRUE)

OperatorAdvances(cs, vs) == NextRound(cs, vs)

NextLive ==
    \/ \E c \in ChunkIds, p \in ContributorIds : ContributorLocks(c, p)
    \/ \E c \in ChunkIds, p \in ContributorIds : ContributorComputes(c, p)
    \/ \E c \in ChunkIds, p \in ContributorIds : ContributorAdds(c, p)
    \/ \E c \in ChunkIds, p \in VerifierIds : VerifierLocks(c, p)
    \/ \E c \in ChunkIds, p \in VerifierIds : VerifierAccepts(c, p)
    \/ \E cs \in ContributorSets \ {{}}, vs \in VerifierSets : OperatorAdvances(cs, vs)

\* Some protocol call of the contributors cs, of a verifier or of the operator
\* changes the store.
CanMoveAs(cs) ==
    \/ \E c \in ChunkIds, p \in cs :
          \/ try_lock_chunk(State, c, p).st # State
          \/ run_computation(State, c, CurrentIdOf(State, c) + 1, p).st # State
          \/ /\ current_round(State).err = OkErr
             /\ contribution_locator_exists(State, current_round_height(State).val, c,
                                             CurrentIdOf(State, c) + 1)
             /\ add_contribution(State, c, p).st # State
    \/ \E c \in ChunkIds, p \in VerifierIds :
          \/ try_lock_verify(State, c, CurrentIdOf(State, c), p).st # State
          \/ verify_contribution(State, c, CurrentIdOf(State, c), p, TRUE).st # State
    \/ \E cs2 \in ContributorSets \ {{}}, vs \in VerifierSets :
          /\ current_round_height(State).val < MaxHeight
          /\ next_round(State, cs2, vs).st # State

\* Some call of NextLive changes the store: ENABLED <<NextLive>>_vars, written
\* out on the results of the calls.
CanMove == CanMoveAs(ContributorIds)

\* CanMove is the enabling condition of a non-stuttering NextLive step.
CanMoveIsEnabled == CanMove <=> ENABLED <<NextLive>>_vars

\* The participants and the operator keep taking their turns: as long as some
\* call of theirs can change the store, one is eventually made. This is weak
\* fairness of NextLive, WF_vars(NextLive), with its enabling condition
\* written as CanMove.
TurnsAreTaken == ([]<>(~CanMove)) \/ ([]<><<NextLive>>_vars)

SpecLive == Init /\ [][NextLive]_vars /\ TurnsAreTaken

\* The ceremony with one contributor that takes a chunk lock and never comes
\* back: it calls try_lock_chunk and nothing else. Everybody else follows the
\* protocol as in NextLive and keeps taking turns.
StalledContributor == "c2"

StalledLocks(c) == TryLockChunk(c, StalledContributor)

NextOthers ==
    \/ \E c \in ChunkIds, p \in ContributorIds \ {StalledContributor} : ContributorLocks(c, p)
    \/ \E c \in ChunkIds, p \in ContributorIds \ {StalledContributor} : ContributorComputes(c, p)
    \/ \E c \in ChunkIds, p \in ContributorIds \ {StalledContributor} : ContributorAdds(c, p)
    \/ \E c \in ChunkIds, p \in VerifierIds : VerifierLocks(c, p)
    \/ \E c \in ChunkIds, p \in VerifierIds : VerifierAccepts(c, p)
    \/ \E cs \in ContributorSets \ {{}}, vs \in VerifierSets : OperatorAdvances(cs, vs)

NextStalled ==
    \/ \E c \in ChunkIds : StalledLocks(c)
    \/ NextOthers

\* Some call of NextOthers changes the store: ENABLED <<NextOthers>>_vars.
OthersCanMove == CanMoveAs(ContributorIds \ {StalledContributor})

OthersCanMoveIsEnabled == OthersCanMove <=> ENABLED <<NextOthers>>_vars

\* The others keep taking their turns (weak fairness of NextOthers, its
\* enabling condition written as OthersCanMove), and the stalled contributor
\* does take a lock when one is to be had.
OthersTakeTurns == ([]<>(~OthersCanMove)) \/ ([]<><<NextOthers>>_vars)

SpecStalled ==
    /\ Init /\ [][NextStalled]_vars
    /\ OthersTakeTurns
    /\ WF_vars(\E c \in ChunkIds : StalledLocks(c))

\* The coordinator whose process may stop inside next_round, between the two
\* inserts of the new round's save_round_to_storage, and is started again on
\* the same storage: every later call finds the storage as the stop left it.
NextRoundStopped(cs, vs) ==
    /\ current_round_height(State).val < MaxHeight
    /\ Returned(next_round_stopped(State, cs, vs))

NextCrash ==
    \/ Next
    \/ \E cs \in ContributorSets, vs \in VerifierSets : NextRoundStopped(cs, vs)

SpecCrash == Init /\ [][NextCrash]_vars

\* The coordinator on a storage whose calls may fail: a next_round may meet
\* a false return inside the save_round_to_storage of the new round.
NextRoundStorageFails(cs, vs, at) ==
    /\ current_round_height(State).val < MaxHeight
    /\ Returned(next_round_storage_failed(State, cs, vs, at))

NextStorageFails ==
    \/ Next
    \/ \E cs \in ContributorSets, vs \in VerifierSets, at \in StorageFailures :
           NextRoundStorageFails(cs, vs, at)

SpecStorageFails == Init /\ [][NextStorageFails]_vars

\* The coordinator serving calls from several threads. next_round holds no
\* lock of its own: it reads through storage(), which locks for the one read,
\* runs the aggregation without any lock, and takes the write lock inside
\* save_round_to_storage only. One next_round call is followed through its
\* steps; every other call runs as a whole between two of them, and
\* a call that runs after the aggregation of the call in flight and before
\* its run_initialization is noted in inFlight.interleaved.
Noted ==
    inFlight' = IF inFlight.pc = "initialize" /\ inFlight.h >= 1
                THEN [inFlight EXCEPT !.interleaved = TRUE]
                ELSE inFlight

Beside(r) == Stored(r) /\ Noted

\* A step of the call in flight that returned r: on an error the call is
\* over, otherwise it is at pc.
Step(r, pc, h) ==
    /\ Stored(r)
    /\ inFlight' = IF r.err # OkErr \/ pc = "idle" THEN Idle
                    ELSE [pc |-> pc, h |-> h, interleaved |-> inFlight.interleaved]

NextRoundBegins ==
    /\ inFlight.pc = "idle"
    /\ current_round_height(State).val < MaxHeight
    /\ LET r == next_round_begin(State) IN
       Step(r, IF r.val = 0 THEN "initialize" ELSE "aggregate", r.val)

NextRoundAggregates ==
    /\ inFlight.pc = "aggregate"
    /\ Step(run_aggregation(State), "initialize", inFlight.h)

NextRoundInitializes(cs, vs) ==
    /\ inFlight.pc = "initialize"
    /\ Step(run_initialization(State, inFlight.h, cs, vs), "finish", inFlight.h)

NextRoundEnds ==
    /\ inFlight.pc = "finish"
    /\ Step(next_round_end(State, inFlight.h), "idle", 0)

BesideTryLockChunk(c, p) == Beside(try_lock_chunk(State, c, p))

BesideTryLockVerify(c, p) == Beside(try_lock_verify(State, c, CurrentIdOf(State, c), p))

BesideRunComputation(c, p) == Beside(run_computation(State, c, CurrentIdOf(State, c) + 1, p))

BesideAddContribution(c, p) == Beside(add_contribution(State, c, p))

BesideVerifyContribution(c, p, passes) ==
    Beside(verify_contribution(State, c, CurrentIdOf(State, c), p, passes))

BesideNextRound(cs, vs) ==
    /\ current_round_height(State).val < MaxHeight
    /\ Beside(next_round(State, cs, vs))

NextConc ==
    \/ NextRoundBegins
    \/ NextRoundAggregates
    \/ \E cs \in ContributorSets, vs \in VerifierSets : NextRoundInitializes(cs, vs)
    \/ NextRoundEnds
    \/ \E c \in ChunkIds, p \in Participants : BesideTryLockChunk(c, p)
    \/ \E c \in ChunkIds, p \in Participants : BesideTryLockVerify(c, p)
    \/ \E c \in ChunkIds, p \in ContributorIds : BesideRunComputation(c, p)
    \/ \E c \in ChunkIds, p \in Participants : BesideAddContribution(c, p)
    \/ \E c \in ChunkIds, p \in Participants, passes \in BOOLEAN : BesideVerifyContribution(c, p, passes)
    \/ \E cs \in ContributorSets, vs \in VerifierSets : BesideNextRound(cs, vs)

SpecConc == Init /\ [][NextConc]_vars

\* The mutating handlers serving calls from several threads. A handler reads
\* through current_round_height, get_round and current_round, each of which
\* takes the read lock for the one read, and takes the write lock with
\* storage_mut() for its update only. One call of try_lock_chunk,
\* add_contribution or verify_contribution is followed from its checks to
\* its update, with what it read in its local variables; every other call
\* runs as a whole between two of its steps.
NoLocal == [round_height |-> 0]

Call(pc, c, p, id, local) ==
    [pc |-> pc, h |-> local.round_height, interleaved |-> FALSE,
     c |-> c, p |-> p, id |-> id, local |-> local]

\* A step of the call in flight that returned r: on an error the call is
\* over, otherwise it goes on as call.
Goes(r, call) ==
    /\ Stored(r)
    /\ inFlight' = IF r.err # OkErr THEN Idle ELSE call

TryLockChunkReads(c, p) ==
    /\ inFlight.pc = "idle"
    /\ LET r == current_round_height(State) IN
       Goes(r, Call("try_lock_chunk", c, p, 0, [round_height |-> r.val]))

TryLockChunkLocks ==
    /\ inFlight.pc = "try_lock_chunk"
    /\ Goes(try_lock_chunk_locked(State, inFlight.h, inFlight.c, inFlight.p), Idle)

AddContributionChecks(c, p) ==
    /\ inFlight.pc = "idle"
    /\ LET r == add_contribution_checks(State, c, p) IN
       Goes(r, Call("add_contribution", c, p, 0, IF r.err = OkErr THEN r.val ELSE NoLocal))

AddContributionAdds ==
    /\ inFlight.pc = "add_contribution"
    /\ Goes(add_contribution_locked(State, inFlight.c, inFlight.p, inFlight.local), Idle)

VerifyContributionChecks(c, p) ==
    /\ inFlight.pc = "idle"
    /\ LET id == CurrentIdOf(State, c)
           r == verify_contribution_checks(State, c, id, p) IN
       Goes(r, Call("verification", c, p, id, IF r.err = OkErr THEN r.val ELSE NoLocal))

VerifyContributionRuns(passes) ==
    /\ inFlight.pc = "verification"
    /\ Goes(verification_run(State, inFlight.h, inFlight.c, inFlight.id,
                             inFlight.local.previous, inFlight.local.current,
                             inFlight.local.next, passes),
            [inFlight EXCEPT !.pc = "verify_contribution"])

VerifyContributionStores ==
    /\ inFlight.pc = "verify_contribution"
    /\ Goes(verify_contribution_locked(State, inFlight.c, inFlight.id, inFlight.p, inFlight.local),
            Idle)

NextHandlers ==
    \/ \E c \in ChunkIds, p \in Participants : TryLockChunkReads(c, p)
    \/ TryLockChunkLocks
    \/ \E c \in ChunkIds, p \in ContributorIds : AddContributionChecks(c, p)
    \/ AddContributionAdds
    \/ \E c \in ChunkIds, p \in VerifierIds : VerifyContributionChecks(c, p)
    \/ \E passes \in BOOLEAN : VerifyContributionRuns(passes)
    \/ VerifyContributionStores
    \/ \E c \in ChunkIds, p \in Participants : BesideTryLockChunk(c, p)
    \/ \E c \in ChunkIds, p \in Participants : BesideTryLockVerify(c, p)
    \/ \E c \in ChunkIds, p \in ContributorIds : BesideRunComputation(c, p)
    \/ \E c \in ChunkIds, p \in Participants : BesideAddContribution(c, p)
    \/ \E c \in ChunkIds, p \in Participants, passes \in BOOLEAN : BesideVerifyContribution(c, p, passes)
    \/ \E cs \in ContributorSets, vs \in VerifierSets : BesideNextRound(cs, vs)

SpecHandlers == Init /\ [][NextHandlers]_vars

\* Two next_round calls issued at once on a complete round. Each call is
\* followed through its steps: next_round reads the height and the round,
\* run_aggregation checks the round and Aggregation::run gets as far as the
\* round_locator_exists check of writer, writer creates the round file,
\* run_initialization makes its checks, save_round_to_storage stores the new
\* round under the write lock, and next_round reads the height once more.
\* Nothing is locked between two of these steps.
Calls == 1 .. 2

\* Coordinator::run_aggregation up to the creation of the round file: the
\* current round is read, must be complete and have its directory, and
\* Aggregation::run passes readers and the round_locator_exists check of
\* writer. The value is the height of the round being aggregated.
run_aggregation_checks(st) ==
    LET cr == current_round(st) IN
    IF cr.err # OkErr THEN Err(st, cr.err)
    ELSE IF ~is_complete(cr.round) THEN Err(st, "RoundNotComplete")
    ELSE IF ~round_directory_exists(st, cr.round.height) THEN Err(st, "RoundDirectoryMissing")
    ELSE LET rd == aggregation_readers(st, cr.round) IN
         IF rd # OkErr THEN Err(st, rd)
         ELSE IF round_locator_exists(st, cr.round.height) THEN Err(st, "RoundLocatorAlreadyExists")
         ELSE Ok(st, cr.round.height)

\* Aggregation::writer from OpenOptions::create_new on, and the rest of
\* run_aggregation: create_new on a file that is there fails and the expect
\* on it panics; otherwise the round file of the height is written.
run_aggregation_creates(st, height) ==
    IF round_locator_exists(st, height) THEN Err(st, "Panic")
    ELSE Ok([st EXCEPT !.roundFiles = st.roundFiles \cup {height}], 0)

\* The round stored at a height; no round is stored above the heights of
\* the model.
round_in_storage(st, h) == h \in DOMAIN st.rounds /\ st.rounds[h] # NoRound

\* Coordinator::run_initialization up to its save_round_to_storage of the
\* new round.
run_initialization_checks(st, round_height) ==
    LET rh == current_round_height(st) IN
    IF rh.err # OkErr THEN Err(st, rh.err)
    ELSE IF round_height < rh.val THEN Err(st, "RoundAlreadyInitialized")
    ELSE IF round_height # rh.val THEN Err(st, "RoundHeightMismatch")
    ELSE LET i0 == IF round_height = 0 THEN run_initialization_round_0(st, round_height) ELSE Ok(st, 0) IN
    IF i0.err # OkErr THEN i0
    ELSE LET s1 == i0.st
             new_height == round_height + 1 IN
    IF round_in_storage(s1, new_height) THEN Err(s1, "RoundAlreadyInitialized")
    ELSE IF \E c \in ChunkIds : ~contribution_locator_exists(s1, new_height, c, 0)
         THEN Err(s1, "ContributionLocatorMissing")
    ELSE Ok(s1, new_height)

\* A call that has been issued and has read nothing yet.
NewCall == [pc |-> "issued", h |-> 0, aggregating |-> 0, err |-> OkErr, val |-> 0, contributors |-> {}]

\* The call after a step that returned r: over with the error of r, or at pc.
After(call, r, pc) ==
    IF r.err # OkErr THEN [call EXCEPT !.pc = "done", !.err = r.err]
    ELSE [call EXCEPT !.pc = pc]

\* Two calls are issued on the complete round at the current height.
\* alone: one next_round on its own would advance the round.
NextRoundIssuedTwice ==
    /\ inFlight.pc = "idle"
    /\ current_round(State).err = OkErr
    /\ current_round_height(State).val >= 1
    /\ current_round_height(State).val < MaxHeight
    /\ is_complete(current_round(State).round)
    /\ Stored(Ok(State, 0))
    /\ inFlight' = [pc |-> "race", h |-> current_round_height(State).val, interleaved |-> FALSE,
                    alone |-> \E cs \in ContributorSets, vs \in VerifierSets :
                                  next_round(State, cs, vs).err = OkErr,
                    call |-> [i \in Calls |-> NewCall],
                    saved |-> 0,
                    produced |-> 0]

CallReadsHeight(i) ==
    /\ inFlight.pc = "race"
    /\ inFlight.call[i].pc = "issued"
    /\ LET r == next_round_begin(State) IN
       /\ Stored(r)
       /\ inFlight' = [inFlight EXCEPT !.call[i] = [After(@, r, "aggregate") EXCEPT !.h = r.val]]

CallChecksAggregation(i) ==
    /\ inFlight.pc = "race"
    /\ inFlight.call[i].pc = "aggregate"
    /\ LET r == run_aggregation_checks(State) IN
       /\ Stored(r)
       /\ inFlight' = [inFlight EXCEPT !.call[i] = [After(@, r, "create") EXCEPT !.aggregating = r.val]]

CallCreatesRoundFile(i) ==
    /\ inFlight.pc = "race"
    /\ inFlight.call[i].pc = "create"
    /\ LET r == run_aggregation_creates(State, inFlight.call[i].aggregating) IN
       /\ Stored(r)
       /\ inFlight' = [inFlight EXCEPT !.call[i] = After(@, r, "initialize"),
                                       !.produced = IF r.err = OkErr /\ inFlight.call[i].aggregating = inFlight.h
                                                    THEN @ + 1 ELSE @]

CallChecksInitialization(i) ==
    /\ inFlight.pc = "race"
    /\ inFlight.call[i].pc = "initialize"
    /\ LET r == run_initialization_checks(State, inFlight.call[i].h) IN
       /\ Stored(r)
       /\ inFlight' = [inFlight EXCEPT !.call[i] = After(@, r, "save")]

CallSavesRound(i, cs, vs) ==
    /\ inFlight.pc = "race"
    /\ inFlight.call[i].pc = "save"
    /\ inFlight.call[i].h < MaxHeight
    /\ LET new_height == inFlight.call[i].h + 1
           r == save_round_to_storage(State, new_height, RoundNew(new_height, cs, vs)) IN
       /\ Stored(r)
       /\ inFlight' = [inFlight EXCEPT !.call[i] = [After(@, r, "finish") EXCEPT !.contributors = cs],
                                       !.saved = IF r.err = OkErr /\ new_height = inFlight.h + 1
                                                 THEN @ + 1 ELSE @]

CallReadsHeightAgain(i) ==
    /\ inFlight.pc = "race"
    /\ inFlight.call[i].pc = "finish"
    /\ LET r == next_round_end(State, inFlight.call[i].h) IN
       /\ Stored(r)
       /\ inFlight' = [inFlight EXCEPT !.call[i] = [After(@, r, "done") EXCEPT !.val = r.val]]

\* Both calls are over; the coordinator goes on serving calls.
BothCallsOver ==
    /\ inFlight.pc = "race"
    /\ \A i \in Calls : inFlight.call[i].pc = "done"
    /\ Stored(Ok(State, 0))
    /\ inFlight' = Idle

ServesOneCall == inFlight.pc = "idle" /\ Next

NextTwoCalls ==
    \/ ServesOneCall
    \/ NextRoundIssuedTwice
    \/ \E i \in Calls : CallReadsHeight(i)
    \/ \E i \in Calls : CallChecksAggregation(i)
    \/ \E i \in Calls : CallCreatesRoundFile(i)
    \/ \E i \in Calls : CallChecksInitialization(i)
    \/ \E i \in Calls, cs \in ContributorSets, vs \in VerifierSets : CallSavesRound(i, cs, vs)
    \/ \E i \in Calls : CallReadsHeightAgain(i)
    \/ BothCallsOver

SpecTwoCalls == Init /\ [][NextTwoCalls]_vars

\* Aggregation::run on its own: a round at height 0 or 1 whose chunks are
\* at some contribution id each, the file of each chunk's current
\* contribution missing or of some length, the round file there or not.
FileLengths == {contribution_filesize(compressed, init) : compressed, init \in BOOLEAN}

InitAggregation ==
    /\ InitCoordinator
    /\ conv = NoConv
    /\ disk = NoDisk
    /\ transcript = NoTranscript
    /\ verifier = NoVerifier
    /\ \E height \in 0 .. 1,
          contribution_id \in [ChunkIds -> 0 .. 1],
          contribution \in [ChunkIds -> {Absent} \cup {FileOfLen(len) : len \in FileLengths}],
          there, compressed_inputs, compressed_outputs \in BOOLEAN :
           aggregated = [NoAggregation EXCEPT
                             !.round = [height |-> height, contribution_id |-> contribution_id],
                             !.env = [contribution |-> contribution,
                                      round |-> IF there THEN FileOfLen(1) ELSE Absent,
                                      compressed_inputs |-> compressed_inputs,
                                      compressed_outputs |-> compressed_outputs],
                             !.before = IF there THEN FileOfLen(1) ELSE Absent]

Aggregates(passes) ==
    /\ aggregated.pc = "input"
    /\ LET r == run(aggregated.env, aggregated.round, passes) IN
       aggregated' = [aggregated EXCEPT !.pc = "done", !.env = r.env, !.res = r.err]
    /\ UNCHANGED <<roundHeight, rounds, files, roundFiles, inFlight, conv, disk, transcript, verifier>>

NextAggregation == \E passes \in BOOLEAN : Aggregates(passes)

SpecAggregation == InitAggregation /\ [][NextAggregation]_vars

\* The verifier client on its own: it takes its steps one after the other;
\* the lock request names the chunk the coordinator gives, the later steps
\* are on that chunk; every request comes to one of the outcomes. The
\* requests sent are kept for the chunk at hand, from its lock request on.
VerifierStep(chunk, outcome) ==
    /\ verifier.next = 1 \/ chunk = verifier.chunk
    /\ verifier' = verifier_step(IF verifier.next = 1 THEN [verifier EXCEPT !.sent = <<>>] ELSE verifier,
                                 chunk, outcome)
    /\ UNCHANGED <<roundHeight, rounds, files, roundFiles, inFlight, conv, disk, transcript, aggregated>>

NextVerifier == \E chunk \in ChunkIds, outcome \in Outcomes : VerifierStep(chunk, outcome)

SpecVerifier == Init /\ [][NextVerifier]_vars

\* The locator conversions of the disk storage, on their own: a locator is
\* given its path (to_path), and the path is read back (to_locator).
InitLocator ==
    /\ InitCoordinator
    /\ \E l \in Locators : conv = [NoConv EXCEPT !.locator = l]
    /\ disk = NoDisk
    /\ transcript = NoTranscript
    /\ aggregated = NoAggregation
    /\ verifier = NoVerifier

ToPath ==
    /\ conv.path = <<>>
    /\ conv' = [conv EXCEPT !.path = to_path(conv.locator)]
    /\ UNCHANGED <<roundHeight, rounds, files, roundFiles, inFlight, disk, transcript, aggregated, verifier>>

ToLocator ==
    /\ conv.path # <<>>
    /\ conv.back = NoConv.back
    /\ conv' = [conv EXCEPT !.back = to_locator(conv.path)]
    /\ UNCHANGED <<roundHeight, rounds, files, roundFiles, inFlight, disk, transcript, aggregated, verifier>>

NextLocator == ToPath \/ ToLocator

SpecLocator == InitLocator /\ [][NextLocator]_vars

\* The Disk store on its own. The base directory is new, or it was prepared
\* with a manifest file listing at most one locator, whose file is there
\* (one zero byte) or missing.
PreparedDisk(listed, there) ==
    [NoDisk EXCEPT
        !.dirs = {base} \cup UNION {{round_directory(1), parent_directory(l)} : l \in there},
        !.fs = [p \in DiskPaths |->
                   IF \E l \in there : to_path(l) = p THEN FileOf(Zeros(1)) ELSE NoFile],
        !.file = [present |-> TRUE, written |-> TRUE, locators |-> listed]]

InitDisk ==
    /\ InitCoordinator
    /\ conv = NoConv
    /\ transcript = NoTranscript
    /\ aggregated = NoAggregation
    /\ verifier = NoVerifier
    /\ \/ disk = NoDisk
       \/ \E listed \in {{}} \cup {{l} : l \in DiskLocators}, there \in SUBSET DiskLocators :
              /\ there \subseteq listed
              /\ disk = PreparedDisk(listed, there)

\* A call on the store that returned r.
DiskReturned(op, l, r) ==
    /\ disk' = [r.d EXCEPT !.last = [op |-> op, locator |-> l, err |-> r.err]]
    /\ UNCHANGED <<roundHeight, rounds, files, roundFiles, inFlight, conv, transcript, aggregated, verifier>>

Load ==
    /\ ~disk.loaded
    /\ DiskReturned("load", <<>>, load(disk))

Initialize(l, size_) ==
    /\ disk.loaded
    /\ DiskReturned("initialize", l, initialize(disk, l, size_))

Insert(l, object) ==
    /\ disk.loaded
    /\ DiskReturned("insert", l, insert(disk, l, object))

Update(l, object) ==
    /\ disk.loaded
    /\ DiskReturned("update", l, update(disk, l, object))

Remove(l) ==
    /\ disk.loaded
    /\ DiskReturned("remove", l, remove(disk, l))

\* The process stops between two calls, or inside initialize after the file
\* is created or after its length is set.
Stops ==
    /\ disk.loaded
    /\ DiskReturned("stop", <<>>, DiskOk(stopped(disk)))

InitializeStops(l, size_, steps) ==
    /\ disk.loaded
    /\ ~exists(disk, l)
    /\ initialize_file(disk, l, size_, steps).err = OkErr
    /\ DiskReturned("stop", l, DiskOk(stopped(initialize_file(disk, l, size_, steps).d)))

NextDisk ==
    \/ Load
    \/ \E l \in DiskLocators, size_ \in Sizes : Initialize(l, size_)
    \/ \E l \in DiskLocators, object \in Objects : Insert(l, object)
    \/ \E l \in DiskLocators, object \in Objects : Update(l, object)
    \/ \E l \in DiskLocators : Remove(l)
    \/ Stops
    \/ \E l \in DiskLocators, size_ \in Sizes, steps \in 1 .. 2 : InitializeStops(l, size_, steps)

SpecDisk == InitDisk /\ [][NextDisk]_vars

\* The contributions to one accumulator, one after the other: a contributor
\* draws its secrets and computes the output from the input (the key pair
\* is derived from the secrets and the hash of the input), the output is
\* verified, and a verified output is the input of the next contribution.
PrivateKeys == [tau : Scalars, alpha : Scalars, beta : Scalars]

Contributes(privkey, r) ==
    /\ transcript.pc = "input"
    /\ transcript' = [transcript EXCEPT
                          !.pc = "output",
                          !.pubkey = key_generation(privkey, r, transcript.digest),
                          !.output = computation(transcript.input, privkey)]
    /\ UNCHANGED <<roundHeight, rounds, files, roundFiles, inFlight, conv, disk, aggregated, verifier>>

Verifies ==
    /\ transcript.pc = "output"
    /\ transcript' = [transcript EXCEPT
                          !.pc = "verified",
                          !.used = transcript.digest,
                          !.res = verification(transcript.input, transcript.output,
                                               transcript.pubkey, transcript.digest,
                                               transcript.parameters)]
    /\ UNCHANGED <<roundHeight, rounds, files, roundFiles, inFlight, conv, disk, aggregated, verifier>>

Continues ==
    /\ transcript.pc = "verified"
    /\ transcript.res = OkErr
    /\ transcript' = [transcript EXCEPT
                          !.pc = "input",
                          !.contributions = IF transcript.contributions < MaxContributions
                                            THEN transcript.contributions + 1
                                            ELSE MaxContributions,
                          !.input = transcript.output,
                          !.digest = calculate_hash(transcript.output)]
    /\ UNCHANGED <<roundHeight, rounds, files, roundFiles, inFlight, conv, disk, aggregated, verifier>>

NextPhase1 ==
    \/ \E privkey \in PrivateKeys, r \in KeyScalars : Contributes(privkey, r)
    \/ Verifies
    \/ Continues

SpecPhase1 == Init /\ [][NextPhase1]_vars

\* The verification of one contribution, in each contribution mode and for
\* each chunk, with the digest of the input or with any other digest. The
\* input is the initial accumulator or an accumulator contributed to.
ChunkInputs == {initialization, computation(initialization, [tau |-> 2, alpha |-> 3, beta |-> 4])}

InitChunked ==
    /\ InitCoordinator
    /\ conv = NoConv
    /\ disk = NoDisk
    /\ \E parameters \in ParameterSets, input \in ChunkInputs :
           transcript = [NoTranscript EXCEPT
                             !.parameters = parameters,
                             !.input = input,
                             !.digest = calculate_hash(input),
                             !.used = calculate_hash(input),
                             !.output = input]
    /\ aggregated = NoAggregation
    /\ verifier = NoVerifier

VerifiesWith(digest) ==
    /\ transcript.pc = "output"
    /\ transcript' = [transcript EXCEPT
                          !.pc = "verified",
                          !.used = digest,
                          !.res = verification(transcript.input, transcript.output,
                                               transcript.pubkey, digest,
                                               transcript.parameters)]
    /\ UNCHANGED <<roundHeight, rounds, files, roundFiles, inFlight, conv, disk, aggregated, verifier>>

NextChunked ==
    \/ \E privkey \in PrivateKeys, r \in KeyScalars : Contributes(privkey, r)
    \/ \E digest \in Digests : VerifiesWith(digest)

SpecChunked == InitChunked /\ [][NextChunked]_vars

---------------------------------------------------------------------------
(* Properties *)

\* The current round, in the states where there is one to contribute to.
HasCurrent == current_round(State).err = OkErr /\ current_round_height(State).val >= 1
Cur == current_round(State).round
CurHeight == current_round_height(State).val
HolderOf(st, c) == st.rounds[st.height[1]].chunks[c].lock_holder
TailOf(round, c) == current_contribution(round.chunks[c])

\* The state with the lock of chunk c of the current round cleared.
Unlocked(st, c) == [st EXCEPT !.rounds[st.height[1]].chunks[c].lock_holder = None]

\* C1. Chunk lock mutual exclusion: while chunk c is locked by p1,
\* try_lock_chunk(c, p2) by any other participant p2 fails with
\* ChunkLockAlreadyAcquired and leaves the holder p1 (and the whole state);
\* and the lock p1 holds on c does not stand in the way of p2 on another
\* chunk c2: try_lock_chunk(c2, p2) answers as it would with c unlocked, and
\* when it succeeds c2 is held by p2 and c still by p1.
C1_LockMutualExclusion ==
    HasCurrent =>
        \A c \in ChunkIds, p2 \in Participants :
            LET p1 == HolderOf(State, c) IN
            (p1 # None /\ p2 # p1) =>
                /\ try_lock_chunk(State, c, p2).err = "ChunkLockAlreadyAcquired"
                /\ try_lock_chunk(State, c, p2).st = State
                /\ \A c2 \in ChunkIds \ {c} :
                      LET r == try_lock_chunk(State, c2, p2) IN
                      /\ r.err = try_lock_chunk(Unlocked(State, c), c2, p2).err
                      /\ r.err = OkErr => /\ HolderOf(State, c2) = None
                                          /\ HolderOf(r.st, c2) = p2
                                          /\ HolderOf(r.st, c) = p1

\* Chunk 0 is locked by c1 and c2 holds chunk 1, having been refused on chunk 0.
C1_Witness ==
    /\ HasCurrent
    /\ HolderOf(State, 0) = "c1"
    /\ HolderOf(State, 1) = "c2"
    /\ try_lock_chunk(State, 0, "c2").err = "ChunkLockAlreadyAcquired"

\* The policy of the design document: a contributor of the round on a verified
\* tail, or a verifier of the round on an unverified tail.
PolicyAllows(round, c, p) ==
    \/ is_contributor(p) /\ p \in round.contributors /\ TailOf(round, c).verified
    \/ is_verifier(p) /\ p \in round.verifiers /\ ~TailOf(round, c).verified

HoldsALock(round, p) == \E d \in ChunkIds : round.chunks[d].lock_holder = p

\* What the round asks of a contributor beyond the policy: the chunk still
\* expects a contribution, and none of them is p's.
ContributorMayAppend(round, c, p) ==
    /\ Len(round.chunks[c].contributions) < expected_num_contributions(round)
    /\ \A i \in 1 .. Len(round.chunks[c].contributions) :
          round.chunks[c].contributions[i].contributor_id # p

C3_AddContributionAppends ==
    \A c \in ChunkIds, p \in Participants :
        LET r == add_contribution(State, c, p) IN
        r.err = OkErr =>
            LET old == State.rounds[CurHeight].chunks[c]
                new == r.st.rounds[CurHeight].chunks[c] IN
            /\ is_contributor(p)
            /\ old.lock_holder = p
            /\ Len(new.contributions) = Len(old.contributions) + 1
            /\ SubSeq(new.contributions, 1, Len(old.contributions)) = old.contributions
            /\ current_contribution(new).id = current_contribution(old).id + 1
            /\ current_contribution(new).contributor_id = p
            /\ ~current_contribution(new).verified
            /\ new.lock_holder = None
            /\ r.val = current_contribution(new).id
            /\ r.st = [State EXCEPT !.rounds[CurHeight].chunks[c] = new]

\* After c2's add_contribution on chunk 0: the tail is contribution 2, c2's,
\* unverified, after two earlier contributions, and the chunk is unlocked.
C3_Witness ==
    /\ HasCurrent
    /\ HolderOf(State, 0) = None
    /\ Len(Cur.chunks[0].contributions) = 3
    /\ TailOf(Cur, 0).id = 2
    /\ TailOf(Cur, 0).contributor_id = "c2"
    /\ ~TailOf(Cur, 0).verified

ContributionIds == 0 .. MaxContributionId

NotHolder(c, p) == ~HasCurrent \/ HolderOf(State, c) # p

\* C4 as stated. add_contribution(c, p) and verify_contribution(c, id, p) by a
\* participant that does not hold the lock of chunk c fail with
\* ChunkNotLockedOrByWrongParticipant and leave the state unchanged.
C4_NonHolderNotLocked ==
    \A c \in ChunkIds, p \in Participants :
        (HasCurrent /\ HolderOf(State, c) # p) =>
            /\ add_contribution(State, c, p).err = "ChunkNotLockedOrByWrongParticipant"
            /\ add_contribution(State, c, p).st = State
            /\ \A id \in ContributionIds, passes \in BOOLEAN :
                  /\ verify_contribution(State, c, id, p, passes).err = "ChunkNotLockedOrByWrongParticipant"
                  /\ verify_contribution(State, c, id, p, passes).st = State

\* C4, amended. add_contribution(c, p) and verify_contribution(c, id, p) by a
\* participant that does not hold the lock of chunk c fail and leave the state
\* unchanged. The error is ChunkNotLockedOrByWrongParticipant when the caller
\* passes the checks made before the lock is looked at: for add_contribution a
\* contributor of the current round (anyone else gets
\* UnauthorizedChunkContributor), for verify_contribution a verifier
\* (a contributor gets ExpectedVerifier) once a round is stored
\* (RoundDoesNotExist before).
C4_NonHolderFails ==
    \A c \in ChunkIds, p \in Participants :
        NotHolder(c, p) =>
            /\ add_contribution(State, c, p).st = State
            /\ add_contribution(State, c, p).err =
                  IF is_contributor(p) /\ HasCurrent /\ p \in Cur.contributors
                  THEN "ChunkNotLockedOrByWrongParticipant"
                  ELSE "UnauthorizedChunkContributor"
            /\ \A id \in ContributionIds, passes \in BOOLEAN :
                  /\ verify_contribution(State, c, id, p, passes).st = State
                  /\ verify_contribution(State, c, id, p, passes).err =
                        IF ~is_verifier(p) THEN "ExpectedVerifier"
                        ELSE IF ~HasCurrent THEN "RoundDoesNotExist"
                        ELSE "ChunkNotLockedOrByWrongParticipant"

\* Chunk 0 is held by c1 with its response on disk: c2, a contributor of the
\* round, and the verifier v1 are turned away for the missing lock, the
\* verifier's add_contribution and c2's verify_contribution for their kind.
C4_Witness ==
    /\ HasCurrent
    /\ HolderOf(State, 0) = "c1"
    /\ contribution_locator_exists(State, CurHeight, 0, 1)
    /\ add_contribution(State, 0, "c2").err = "ChunkNotLockedOrByWrongParticipant"
    /\ verify_contribution(State, 0, 1, "v1", TRUE).err = "ChunkNotLockedOrByWrongParticipant"
    /\ add_contribution(State, 0, "v1").err = "UnauthorizedChunkContributor"
    /\ verify_contribution(State, 0, 1, "c2", TRUE).err = "ExpectedVerifier"

VerifiedIn(rs, h, c, id) ==
    /\ rs[h] # NoRound
    /\ \E i \in 1 .. Len(rs[h].chunks[c].contributions) :
          /\ rs[h].chunks[c].contributions[i].id = id
          /\ rs[h].chunks[c].contributions[i].verified

\* verify_contribution(c, id, p) succeeds exactly for the verifier holding the
\* lock of c, on the unverified contribution id >= 1, when the verification
\* run on (id - 1, id) succeeds; it then marks contribution id verified, and a
\* call that fails marks nothing.
C5_Call ==
    \A c \in ChunkIds, id \in ContributionIds, p \in Participants, passes \in BOOLEAN :
        LET r == verify_contribution(State, c, id, p, passes) IN
        /\ r.err = OkErr <=>
              /\ HasCurrent
              /\ is_verifier(p)
              /\ HolderOf(State, c) = p
              /\ id >= 1
              /\ has_contribution(Cur.chunks[c], id)
              /\ ~VerifiedIn(rounds, CurHeight, c, id)
              /\ passes
              /\ contribution_locator_exists(State, CurHeight, c, id - 1)
              /\ contribution_locator_exists(State, CurHeight, c, id)
        /\ r.err = OkErr => VerifiedIn(r.st.rounds, CurHeight, c, id)
        /\ r.err # OkErr => r.st.rounds = rounds

\* A contribution id >= 1 that is verified after a step and was not before it
\* was verified by that step: a successful verify_contribution(c, id, p) of
\* the lock holder p on the current round, with a verification run that passed.
C5_Step ==
    \A h \in 1 .. MaxHeight, c \in ChunkIds, id \in 1 .. MaxContributionId :
        (~VerifiedIn(rounds, h, c, id) /\ VerifiedIn(rounds', h, c, id)) =>
            /\ HasCurrent
            /\ h = CurHeight
            /\ \E p \in VerifierIds :
                  /\ HolderOf(State, c) = p
                  /\ verify_contribution(State, c, id, p, TRUE).err = OkErr
                  /\ rounds' = verify_contribution(State, c, id, p, TRUE).st.rounds

\* C5. A contribution with id >= 1 becomes verified exactly when
\* verify_contribution(c, id, v) is called by the verifier v holding the lock
\* of chunk c and the verification run on (id - 1, id) succeeds; no
\* contribution is marked verified by a verification that failed, or by any
\* other operation.
C5_VerifiedByVerification == []C5_Call /\ [][C5_Step]_vars

\* After v1's verify_contribution on chunk 0: contribution 1, c1's, is
\* verified by v1 and the chunk is unlocked.
C5_Witness ==
    /\ HasCurrent
    /\ HolderOf(State, 0) = None
    /\ TailOf(Cur, 0).id = 1
    /\ TailOf(Cur, 0).verified
    /\ TailOf(Cur, 0).verifier_id = "v1"
    /\ TailOf(Cur, 0).contributor_id = "c1"

\* The chunk holds exactly the expected number of contributions, the last verified.
ChunkDone(round, c) ==
    /\ Len(round.chunks[c].contributions) = expected_num_contributions(round)
    /\ round.chunks[c].contributions[Len(round.chunks[c].contributions)].verified

C7_NextRoundNeedsComplete ==
    (HasCurrent /\ ~is_complete(Cur)) =>
        \A cs \in ContributorSets, vs \in VerifierSets :
            LET r == next_round(State, cs, vs) IN
            /\ r.err = "RoundNotComplete"
            /\ r.st.roundFiles = roundFiles
            /\ r.st.rounds = rounds
            /\ r.st.height = roundHeight
            /\ r.st = State

\* Round 1 with every chunk but chunk 1 done, where chunk 1 waits for its
\* last verification: next_round is refused.
C7_Witness ==
    /\ HasCurrent
    /\ CurHeight = 1
    /\ ChunkDone(Cur, 0)
    /\ ~TailOf(Cur, 1).verified
    /\ next_round(State, {"c1"}, {"v1"}).err = "RoundNotComplete"
    /\ rounds[2] = NoRound

\* C8 as stated. Whenever the current round is complete, next_round succeeds
\* and returns height + 1, after which current_round_height is the old height
\* plus one and the new current round carries the supplied contributors and
\* verifiers.
C8_CompleteRoundAdvances ==
    (HasCurrent /\ is_complete(Cur) /\ CurHeight < MaxHeight) =>
        \A cs \in ContributorSets, vs \in VerifierSets :
            LET r == next_round(State, cs, vs) IN
            /\ r.err = OkErr
            /\ r.val = CurHeight + 1
            /\ current_round_height(r.st).val = CurHeight + 1
            /\ current_round(r.st).round.contributors = cs
            /\ current_round(r.st).round.verifiers = vs

\* A round started with an empty contributor list is complete as it stands;
\* no verification has written the challenges of the next height, and
\* next_round fails on them after the round has been aggregated.
C8_Witness ==
    /\ HasCurrent
    /\ CurHeight < MaxHeight
    /\ Cur.contributors = {}
    /\ is_complete(Cur)
    /\ next_round(State, {"c1"}, {"v1"}).err = "ContributionLocatorMissing"
    /\ next_round(State, {"c1"}, {"v1"}).st.roundFiles # roundFiles

\* What holds of next_round on a complete round that had contributors.
C8_WithContributors ==
    (HasCurrent /\ is_complete(Cur) /\ CurHeight < MaxHeight /\ Cur.contributors # {}) =>
        \A cs \in ContributorSets, vs \in VerifierSets :
            LET r == next_round(State, cs, vs) IN
            /\ r.err = OkErr
            /\ r.val = CurHeight + 1
            /\ current_round_height(r.st).val = CurHeight + 1
            /\ current_round(r.st).round.contributors = cs
            /\ current_round(r.st).round.verifiers = vs

HeightNow == current_round_height(State).val

\* C9. The round height is monotonic: over any step of the coordinator, a
\* call that succeeds or fails, the value of current_round_height does not
\* decrease, and it changes only in a step of next_round, by one.
C9_HeightMonotonic ==
    [][/\ HeightNow' >= HeightNow
       /\ HeightNow' # HeightNow =>
             /\ HeightNow' = HeightNow + 1
             /\ \E cs \in ContributorSets, vs \in VerifierSets :
                   /\ next_round(State, cs, vs).err = OkErr
                   /\ NextRound(cs, vs)]_vars

\* The ceremony has been taken to round 2, whose chunk 0 has been contributed
\* to and verified since.
C9_Witness ==
    /\ HasCurrent
    /\ HeightNow = 2
    /\ TailOf(Cur, 0).id = 1
    /\ TailOf(Cur, 0).verified

\* C10. Once the ceremony is initialized, a round is stored for every height
\* from 0 to the current one, each under its own height, and
\* current_round_height never fails for, or returns, a height above 0 with no
\* round stored.
C10_RoundsExist ==
    /\ current_round_height(State).err = OkErr
    /\ roundHeight # <<>> =>
          /\ HeightNow = roundHeight[1]
          /\ \A h \in 0 .. roundHeight[1] :
                /\ rounds[h] # NoRound
                /\ rounds[h].height = h
                /\ get_round(State, h).err = OkErr
          /\ \A h \in Heights : h > roundHeight[1] => rounds[h] = NoRound

\* Height 2, with rounds 0, 1 and 2 in storage.
C10_Witness ==
    /\ roundHeight = <<2>>
    /\ rounds[0] # NoRound
    /\ rounds[1] # NoRound
    /\ rounds[2] # NoRound

\* The ids of the chunk's contributions are 0, 1, ..., k in this order.
IdsArePrefix(chunk) ==
    \A i \in 1 .. Len(chunk.contributions) : chunk.contributions[i].id = i - 1

C11_Prefix ==
    \A h \in Heights :
        rounds[h] # NoRound => \A c \in ChunkIds : IdsArePrefix(rounds[h].chunks[c])

\* Over a step, a stored round stays stored and each of its chunks keeps the
\* contributions it had, with their ids, contributors and locators, and gains
\* at most one, whose id is the previous maximum plus one.
C11_AppendOnly ==
    \A h \in Heights, c \in ChunkIds :
        rounds[h] # NoRound =>
            /\ rounds'[h] # NoRound
            /\ LET old == rounds[h].chunks[c].contributions
                   new == rounds'[h].chunks[c].contributions IN
               /\ Len(new) \in {Len(old), Len(old) + 1}
               /\ \A i \in 1 .. Len(old) :
                     /\ new[i].id = old[i].id
                     /\ new[i].contributor_id = old[i].contributor_id
                     /\ new[i].contributor_locator = old[i].contributor_locator
               /\ Len(new) = Len(old) + 1 => new[Len(new)].id = old[Len(old)].id + 1

\* C11. Contribution-id prefix invariant: in every chunk of every stored round
\* the contribution ids are exactly 0 .. k; contributions are append-only (an
\* id once present is never removed or renumbered) and an accepted
\* contribution has the id of the previous maximum plus one.
C11_IdsPrefixAppendOnly == []C11_Prefix /\ [][C11_AppendOnly]_vars

\* Chunk 1 of the current round holds contributions 0, 1 and 2, all verified.
C11_Witness ==
    /\ HasCurrent
    /\ Len(Cur.chunks[1].contributions) = 3
    /\ TailOf(Cur, 1).id = 2
    /\ TailOf(Cur, 1).verified
    /\ IdsArePrefix(Cur.chunks[1])

\* C12. In every stored round every verified contribution has a verifier and
\* a verified locator, and contribution 0 of every chunk is verified.
C12_VerifiedHasVerifier ==
    \A h \in Heights :
        rounds[h] # NoRound =>
            \A c \in ChunkIds :
                LET cs == rounds[h].chunks[c].contributions IN
                /\ cs[1].id = 0
                /\ cs[1].verified
                /\ \A i \in 1 .. Len(cs) :
                      cs[i].verified => /\ cs[i].verifier_id # None
                                        /\ cs[i].verified_locator # NoLocator

\* In round 2, contribution 1 of chunk 0 is verified, by v1, with the locator
\* of the response as its verified locator.
C12_Witness ==
    /\ HasCurrent
    /\ CurHeight = 2
    /\ TailOf(Cur, 0).id = 1
    /\ TailOf(Cur, 0).verified
    /\ TailOf(Cur, 0).verifier_id = "v1"
    /\ TailOf(Cur, 0).verified_locator = contribution_locator(2, 0, 1)

\* C13. Re-acquisition is rejected and harmless: when p holds the lock of
\* chunk c, another try_lock_chunk(c, p), or try_lock_verify(c, id, p), fails
\* (ChunkLockAlreadyAcquired) and chunk c is still locked by p afterwards, the
\* state as it was.
C13_ReacquisitionFails ==
    HasCurrent =>
        \A c \in ChunkIds, p \in Participants :
            HolderOf(State, c) = p =>
                /\ try_lock_chunk(State, c, p).err = "ChunkLockAlreadyAcquired"
                /\ HolderOf(try_lock_chunk(State, c, p).st, c) = p
                /\ try_lock_chunk(State, c, p).st = State
                /\ \A id \in ContributionIds :
                      /\ try_lock_verify(State, c, id, p).err # OkErr
                      /\ try_lock_verify(State, c, id, p).st = State

\* The verifier v1 holds chunk 1 and the contributor c2 chunk 0; each is
\* refused when it asks for its own chunk again.
C13_Witness ==
    /\ HasCurrent
    /\ HolderOf(State, 1) = "v1"
    /\ HolderOf(State, 0) = "c2"
    /\ try_lock_chunk(State, 1, "v1").err = "ChunkLockAlreadyAcquired"
    /\ try_lock_chunk(State, 0, "c2").err = "ChunkLockAlreadyAcquired"

\* C14 as stated. verify_contribution(c, id, v) issued again by the verifier v
\* of a contribution that is already verified fails with
\* ContributionAlreadyVerified and leaves the state unchanged.
C14_ReverifyAlreadyVerified ==
    HasCurrent =>
        \A c \in ChunkIds, id \in 1 .. MaxContributionId, passes \in BOOLEAN :
            VerifiedIn(rounds, CurHeight, c, id) =>
                LET v == get_contribution(Cur.chunks[c], id).verifier_id
                    r == verify_contribution(State, c, id, v, passes) IN
                /\ r.err = "ContributionAlreadyVerified"
                /\ r.st = State

\* C14, amended. verify_contribution(c, id, v) by a verifier on a contribution
\* of the current round that is already verified fails and leaves the
\* contribution, the chunk and all files unchanged. The error is
\* ContributionAlreadyVerified when v holds the lock of chunk c; a verifier
\* without the lock, as the one whose verification has just released it, gets
\* ChunkNotLockedOrByWrongParticipant.
C14_ReverifyFails ==
    HasCurrent =>
        \A c \in ChunkIds, id \in ContributionIds, v \in VerifierIds, passes \in BOOLEAN :
            VerifiedIn(rounds, CurHeight, c, id) =>
                LET r == verify_contribution(State, c, id, v, passes) IN
                /\ r.st = State
                /\ r.err = IF HolderOf(State, c) = v
                           THEN "ContributionAlreadyVerified"
                           ELSE "ChunkNotLockedOrByWrongParticipant"

\* v1 holds chunk 0 to verify contribution 2; contribution 1, which it
\* verified before, is refused as already verified; on chunk 1, whose lock v1
\* released when it verified contribution 1, it is refused for the lock.
C14_Witness ==
    /\ HasCurrent
    /\ HolderOf(State, 0) = "v1"
    /\ TailOf(Cur, 0).id = 2
    /\ verify_contribution(State, 0, 1, "v1", TRUE).err = "ContributionAlreadyVerified"
    /\ VerifiedIn(rounds, CurHeight, 1, 1)
    /\ verify_contribution(State, 1, 1, "v1", TRUE).err = "ChunkNotLockedOrByWrongParticipant"

\* C15. A participant holds at most one chunk lock at a time. In every
\* reachable state no participant is the holder of two chunks of one stored
\* round; and while p holds the lock of chunk c of the current round,
\* try_lock_chunk(c2, p) on any other chunk c2 fails, changes nothing and
\* leaves c2 as it was (unlocked when it was unlocked).
C15_OneLockPerParticipant ==
    /\ \A h \in Heights : rounds[h] # NoRound =>
           \A p \in Participants \cup {CoordinatorVerifier} :
               Cardinality({c \in ChunkIds : is_locked_by(rounds[h].chunks[c], p)}) <= 1
    /\ HasCurrent =>
           \A c \in ChunkIds, p \in Participants :
               HolderOf(State, c) = p =>
                   \A c2 \in ChunkIds \ {c} :
                       LET r == try_lock_chunk(State, c2, p) IN
                       /\ r.err # OkErr
                       /\ r.st = State
                       /\ ~is_chunk_locked_by(r.st.rounds[CurHeight], c2, p)

\* c1 holds chunk 0 and has not contributed to chunk 1, whose tail is
\* verified and which nobody holds: only the lock on chunk 0 stands between
\* c1 and chunk 1.
C15_Witness ==
    /\ HasCurrent
    /\ HolderOf(State, 0) = "c1"
    /\ HolderOf(State, 1) = None
    /\ TailOf(Cur, 1).verified
    /\ ~has_contributed(Cur.chunks[1], "c1")
    /\ ~only_contributions_complete(Cur.chunks[1], expected_num_contributions(Cur))
    /\ try_lock_chunk(State, 1, "c1").err = "ChunkLockAlreadyAcquired"
    /\ try_lock_chunk(Unlocked(State, 0), 1, "c1").err = OkErr

\* The outcome of the bootstrap call next_round(t0, cs, vs) on the empty
\* store, but for the completeness of round 1: height 1 is returned, round 0
\* is stored and complete, contribution 0 of rounds 0 and 1 exists for every
\* chunk, and round 1 is the current round with exactly cs and vs.
BootstrapOutcome(r, cs, vs) ==
    /\ r.err = OkErr
    /\ r.val = 1
    /\ current_round_height(r.st).val = 1
    /\ get_round(r.st, 0).err = OkErr
    /\ is_complete(get_round(r.st, 0).round)
    /\ \A c \in ChunkIds : /\ contribution_locator_exists(r.st, 0, c, 0)
                            /\ contribution_locator_exists(r.st, 1, c, 0)
    /\ current_round(r.st).err = OkErr
    /\ current_round(r.st).round.height = 1
    /\ current_round(r.st).round.contributors = cs
    /\ current_round(r.st).round.verifiers = vs
    /\ \A p \in Participants :
          /\ is_current_contributor(r.st, p) <=> p \in cs
          /\ is_current_verifier(r.st, p) <=> p \in vs

C17_Eventually ==
    \A h \in 1 .. MaxHeight :
        /\ (HeightNow = h) ~> (HeightNow = h /\ \A c \in ChunkIds : ChunkDone(rounds[h], c))
        /\ (HeightNow = h) ~> (HeightNow = h /\ is_complete(rounds[h]))
        /\ h < MaxHeight =>
              ((HeightNow = h /\ is_complete(rounds[h])) ~> (HeightNow = h + 1 /\ h \in roundFiles))

C17_NoDeadlock ==
    (HeightNow >= 1 /\ (~is_complete(rounds[HeightNow]) \/ HeightNow < MaxHeight))
        => CanMove

\* C17: a round run by participants that follow the protocol is completed
\* and advanced, and no state on the way is a deadlock.
C17_FullRoundProgress == C17_Eventually /\ []C17_NoDeadlock

\* Round 1 was run by two contributors and one verifier over every chunk,
\* aggregated, and the ceremony is at height 2.
C17_Witness ==
    /\ roundHeight = <<2>>
    /\ rounds[1].contributors = {"c1", "c2"}
    /\ is_complete(rounds[1])
    /\ \A c \in ChunkIds : /\ Len(rounds[1].chunks[c].contributions) = 3
                            /\ VerifiedIn(rounds, 1, c, 1)
                            /\ VerifiedIn(rounds, 1, c, 2)
    /\ 1 \in roundFiles

\* The promotion step of C18: a verify_contribution that succeeds on the last
\* expected contribution of chunk c of round h writes exactly contribution 0
\* of chunk c of round h + 1, and one that succeeds on an earlier contribution
\* id writes exactly contribution id + 1 of round h.
C18_PromotionStep ==
    HasCurrent =>
        \A c \in ChunkIds, v \in VerifierIds :
            LET id == CurrentIdOf(State, c)
                r == verify_contribution(State, c, id, v, TRUE) IN
            r.err = OkErr =>
                r.st.files = files \cup
                    {IF Len(Cur.chunks[c].contributions) = expected_num_contributions(Cur)
                     THEN contribution_locator(CurHeight + 1, c, 0)
                     ELSE contribution_locator(CurHeight, c, id + 1)}

\* C18 as stated. Promotion of the final contribution: the step above, and
\* hence whenever a stored round h is complete, contribution 0 of round h + 1
\* exists for every chunk.
C18_Promotion ==
    /\ C18_PromotionStep
    /\ \A h \in Heights :
          (rounds[h] # NoRound /\ is_complete(rounds[h])) =>
              \A c \in ChunkIds : contribution_locator_exists(State, h + 1, c, 0)

\* A stored round without contributors: complete, and no contribution 0 of
\* the next round on disk for any chunk, no verification having run in it.
C18_Witness ==
    /\ HasCurrent
    /\ Cur.contributors = {}
    /\ is_complete(Cur)
    /\ \A c \in ChunkIds : ~contribution_locator_exists(State, CurHeight + 1, c, 0)
    /\ \A c \in ChunkIds, v \in VerifierIds :
          /\ try_lock_chunk(State, c, v).err = "UnauthorizedChunkVerifier"
          /\ verify_contribution(State, c, 0, v, TRUE).err # OkErr

\* The consequence holds of every complete round that had contributors.
C18_PromotedWithContributors ==
    \A h \in Heights :
        (rounds[h] # NoRound /\ is_complete(rounds[h]) /\ (h = 0 \/ rounds[h].contributors # {})) =>
            \A c \in ChunkIds : contribution_locator_exists(State, h + 1, c, 0)

\* A final verification has just promoted chunk 0 of round 1, and an earlier
\* one has written contribution 2 of chunk 1.
C18_StepWitness ==
    /\ roundHeight = <<1>>
    /\ ChunkDone(rounds[1], 0)
    /\ Len(rounds[1].chunks[0].contributions) = 3
    /\ contribution_locator_exists(State, 2, 0, 0)
    /\ Len(rounds[1].chunks[1].contributions) = 2
    /\ VerifiedIn(rounds, 1, 1, 1)
    /\ contribution_locator_exists(State, 1, 1, 2)

\* Verifier v holds chunk c of the current round, whose tail is an unverified
\* contribution with its file and its predecessor's file on disk: all that a
\* verify_contribution by v still depends on is the verification itself.
ReadyToVerify(c, v) ==
    /\ HasCurrent
    /\ HolderOf(State, c) = v
    /\ is_current_verifier(State, v)
    /\ ~TailOf(Cur, c).verified
    /\ contribution_locator_exists(State, CurHeight, c, TailOf(Cur, c).id)
    /\ contribution_locator_exists(State, CurHeight, c, TailOf(Cur, c).id - 1)

\* C19 as stated. When the verification of a contribution fails, the failure
\* releases the chunk lock held by the verifier and the rejected contribution
\* does not remain in the chunk's contribution log: the chunk is back at its
\* last verified tail and a contributor can lock it again.
C19_FailureRollsBack ==
    \A c \in ChunkIds, v \in VerifierIds :
        ReadyToVerify(c, v) =>
            LET id == TailOf(Cur, c).id
                r == verify_contribution(State, c, id, v, FALSE)
                after == r.st.rounds[CurHeight] IN
            /\ r.err = "VerificationFailed"
            /\ ~is_locked(after.chunks[c])
            /\ ~has_contribution(after.chunks[c], id)
            /\ TailOf(after, c).verified
            /\ \E p \in Cur.contributors : try_lock_chunk(r.st, c, p).err = OkErr

\* What the code does on a failed verification: it returns VerificationFailed
\* and changes nothing. The verifier still holds the chunk, the rejected
\* contribution is still the tail of the chunk, and no other participant can
\* lock the chunk.
C19_FailureChangesNothing ==
    \A c \in ChunkIds, v \in VerifierIds :
        ReadyToVerify(c, v) =>
            LET id == TailOf(Cur, c).id
                r == verify_contribution(State, c, id, v, FALSE) IN
            /\ r.err = "VerificationFailed"
            /\ r.st = State
            /\ is_chunk_locked_by(r.st.rounds[CurHeight], c, v)
            /\ has_contribution(r.st.rounds[CurHeight].chunks[c], id)
            /\ \A p \in Participants : try_lock_chunk(r.st, c, p).err = "ChunkLockAlreadyAcquired"

\* v1 holds chunk 0 to verify contribution 1, added by c1, and the
\* verification fails.
C19_Witness ==
    /\ ReadyToVerify(0, "v1")
    /\ TailOf(Cur, 0).id = 1
    /\ TailOf(Cur, 0).contributor_id = "c1"
    /\ verify_contribution(State, 0, 1, "v1", FALSE).err = "VerificationFailed"
    /\ verify_contribution(State, 0, 1, "v1", FALSE).st = State

\* The holder of chunk c of the current round, None without a current round.
HolderNow(c) == IF HasCurrent THEN HolderOf(State, c) ELSE None

\* C20 as stated. Lock expiry: when a participant has acquired a chunk lock
\* and never completes, the coordinator eventually takes the lock away, so
\* the chunk does not stay locked by it forever. Stated of the contributor
\* that never completes, on the runs where everybody else keeps taking turns
\* (SpecStalled).
C20_LockExpires ==
    \A c \in ChunkIds :
        (HolderNow(c) = StalledContributor) ~> (HolderNow(c) # StalledContributor)

\* What the code does: a chunk lock ends only in the holder's own
\* add_contribution or verify_contribution. Over every step of the
\* coordinator, a chunk held by p before the step and not held by p after it
\* was released by that call of p.
C20_OnlyHolderReleases ==
    \A c \in ChunkIds, p \in Participants :
        (HolderNow(c) = p /\ HolderNow(c)' # p) =>
            \/ is_contributor(p) /\ Returned(add_contribution(State, c, p))
            \/ is_verifier(p) /\ Returned(verify_contribution(State, c, CurrentIdOf(State, c), p, TRUE))

C20_NoExpiry == [][C20_OnlyHolderReleases]_vars

\* The stalled contributor holds chunk 0 of a round whose other chunk has
\* gone as far as it can without it, and nobody can do anything about it:
\* every try_lock_chunk on chunk 0 is refused and no call of the others
\* changes the store.
C20_Witness ==
    /\ HolderNow(0) = StalledContributor
    /\ \A p \in Participants \ {StalledContributor} :
          try_lock_chunk(State, 0, p).err = "ChunkLockAlreadyAcquired"
    /\ VerifiedIn(rounds, CurHeight, 1, 1)
    /\ ~OthersCanMove

\* The storage holds the round above the current height: a next_round wrote
\* RoundState(h+1) and stopped before it updated RoundHeight.
Dangling ==
    /\ HeightNow < MaxHeight
    /\ rounds[HeightNow + 1] # NoRound

\* C21 as stated. Crash between the two round-advance writes: with
\* RoundState(h+1) written and RoundHeight not yet bumped,
\* current_round_height still returns h, the next next_round succeeds,
\* reusing the dangling RoundState(h+1), and ends at height h + 1.
C21_CrashRecoverable ==
    Dangling =>
        /\ current_round_height(State).err = OkErr
        /\ \A cs \in ContributorSets, vs \in VerifierSets :
              LET r == next_round(State, cs, vs) IN
              /\ r.err = OkErr
              /\ r.val = HeightNow + 1
              /\ current_round_height(r.st).val = HeightNow + 1

\* What the code does after such a stop: current_round_height returns h, and
\* every next_round fails and leaves the height at h. At height 0 the round
\* 0 found in storage stops run_initialization (RoundAlreadyInitialized),
\* after the directory of round 0 has been reset; above, the round file
\* written by the stopped attempt stops the aggregation
\* (RoundLocatorAlreadyExists).
C21_CrashStuck ==
    Dangling =>
        /\ current_round_height(State).err = OkErr
        /\ \A cs \in ContributorSets, vs \in VerifierSets :
              LET r == next_round(State, cs, vs) IN
              /\ r.err = IF HeightNow = 0 THEN "RoundAlreadyInitialized"
                                          ELSE "RoundLocatorAlreadyExists"
              /\ current_round_height(r.st).val = HeightNow
              /\ r.st.rounds = rounds

\* The dangling round stays, and the height never moves again.
C21_StuckForever == [][Dangling => (Dangling' /\ HeightNow' = HeightNow)]_vars

\* Round 1 was completed by c1 and v1, next_round(t, [c1, c2], [v1]) wrote
\* round 2 and stopped; the height is 1 and a new next_round is refused.
C21_Witness ==
    /\ roundHeight = <<1>>
    /\ is_complete(rounds[1])
    /\ rounds[1].contributors = {"c1"}
    /\ rounds[2] = RoundNew(2, {"c1", "c2"}, {"v1"})
    /\ 1 \in roundFiles
    /\ next_round(State, {"c1", "c2"}, {"v1"}).err = "RoundLocatorAlreadyExists"

\* C22 as stated. Round N+1 is observable only after round N's aggregated
\* file exists: in every reachable state in which current_round_height
\* returns N+1, the round file of round N is in storage, for every N.
C22_AggregatedBeforeObservable ==
    \A n \in 0 .. MaxHeight - 1 :
        (current_round_height(State).err = OkErr /\ HeightNow = n + 1) =>
            round_locator_exists(State, n)

\* C22, amended. The same for every N >= 1, and for every round below the
\* current one but round 0; round 0 is never aggregated, and no state holds
\* a round file of round 0.
C22_AggregatedAboveZero ==
    /\ \A n \in 1 .. MaxHeight - 1 :
          (current_round_height(State).err = OkErr /\ HeightNow >= n + 1) =>
              round_locator_exists(State, n)
    /\ ~round_locator_exists(State, 0)
    /\ \A n \in Heights : round_locator_exists(State, n) => HeightNow >= n

\* The ceremony is at height 2, opened with one contributor; round 1 is
\* aggregated and round 0 is not.
C22_Witness ==
    /\ HeightNow = 2
    /\ rounds[2].contributors = {"c1"}
    /\ round_locator_exists(State, 1)
    /\ ~round_locator_exists(State, 0)

\* The next_round call in flight has aggregated round h >= 1 into RoundFile(h)
\* and has not yet created RoundState(h+1).
BetweenSteps == inFlight.pc = "initialize" /\ inFlight.h >= 1

\* C23 as stated. next_round is one critical section: the aggregation into
\* RoundFile(h), the creation of RoundState(h+1) and the bump of RoundHeight
\* occur under one write lock, so no other coordinator operation reads or
\* mutates the ceremony state between these steps: no call runs beside a
\* next_round that has aggregated and not yet created the next round.
C23_CriticalSection == BetweenSteps => ~inFlight.interleaved

\* What holds of the code. The creation of RoundState(h+1) and the bump of
\* RoundHeight are one step (save_round_to_storage holds the write lock over
\* both): no state has a round stored above the current height. And the
\* calls that run between the aggregation and that step find the round
\* complete and change nothing.
C23_SaveIsAtomic ==
    \A h \in Heights : rounds[h] # NoRound => (roundHeight # <<>> /\ h <= roundHeight[1])

C23_BesideChangesNothing ==
    [][(BetweenSteps /\ inFlight'.pc = "initialize" /\ inFlight'.h = inFlight.h)
          => State' = State]_vars

C23_AtomicSaveOnly == []C23_SaveIsAtomic /\ C23_BesideChangesNothing

\* A next_round call has aggregated round 1 and stands before
\* run_initialization; another call has run since, and a second next_round
\* arriving now is answered RoundLocatorAlreadyExists.
C23_Witness ==
    /\ BetweenSteps
    /\ inFlight.h = 1
    /\ inFlight.interleaved
    /\ roundHeight = <<1>>
    /\ round_locator_exists(State, 1)
    /\ rounds[2] = NoRound
    /\ next_round(State, {"c1"}, {"v1"}).err = "RoundLocatorAlreadyExists"

\* The tail of chunk c in the current round, and the two reasons for which
\* the round is not ready for a next contribution of chunk c.
C24_Tail(c) ==
    LET cs == rounds[HeightNow].chunks[c].contributions IN cs[Len(cs)]

C24_NotReady(c) ==
    \/ ~C24_Tail(c).verified
    \/ Len(rounds[HeightNow].chunks[c].contributions)
          = Cardinality(rounds[HeightNow].contributors) + 1

C24_NextExists(c) == <<HeightNow, c, C24_Tail(c).id + 1>> \in files

\* C24 as stated. next_contribution_locator(c) fails whenever the lock of
\* chunk c is not held, whenever the locator of the next contribution exists,
\* and whenever the round is not ready (tail not verified, or chunk fully
\* contributed); only otherwise it returns the locator of contribution
\* (tail id + 1) of the current round.
C24_NextLocatorNeedsLock ==
    (roundHeight # <<>> /\ HeightNow >= 1) =>
        \A c \in ChunkIds :
            LET r == next_contribution_locator(State, c)
                refused == \/ rounds[HeightNow].chunks[c].lock_holder = None
                           \/ C24_NextExists(c)
                           \/ C24_NotReady(c) IN
            /\ refused <=> r.err # OkErr
            /\ r.err = OkErr => r.val = <<HeightNow, c, C24_Tail(c).id + 1>>

\* C24, amended. next_contribution_locator(c) fails whenever the locator of
\* the next contribution exists and whenever the round is not ready; in every
\* other case, whether the lock of chunk c is held or not, it returns the
\* locator of contribution (tail id + 1) of the current round. It changes
\* nothing.
C24_NextLocator ==
    (roundHeight # <<>> /\ HeightNow >= 1) =>
        \A c \in ChunkIds :
            LET r == next_contribution_locator(State, c) IN
            /\ (C24_NextExists(c) \/ C24_NotReady(c)) <=> r.err # OkErr
            /\ C24_NotReady(c) =>
                  r.err \in {"ContributionsComplete", "ContributionMissingVerification"}
            /\ (~C24_NotReady(c) /\ C24_NextExists(c)) =>
                  r.err = "ContributionLocatorAlreadyExists"
            /\ r.err = OkErr => r.val = <<HeightNow, c, C24_Tail(c).id + 1>>
            /\ r.st = State

\* Chunk 0 of round 1 is locked by nobody, its tail is verified and the file
\* of its next contribution is absent: next_contribution_locator(0) is
\* answered with a locator; on chunk 1 the file of the next contribution is
\* there and the call is refused.
C24_Witness ==
    /\ roundHeight = <<1>>
    /\ rounds[1].chunks[0].lock_holder = None
    /\ next_contribution_locator(State, 0).err = OkErr
    /\ next_contribution_locator(State, 1).err = "ContributionLocatorAlreadyExists"

\* The locator under conversion has been given its path and read back.
ReadBack == conv.path # <<>> /\ conv.back # NoConv.back

\* C27 as stated. Locator round trip: for every well-formed locator l
\* (RoundHeight, RoundState(h), RoundFile(h), ContributionFile(h, c, id,
\* verified)), to_locator(to_path(l)) returns l.
C27_RoundTrip == ReadBack => conv.back = LocatorOk(conv.locator)

\* What to_locator(to_path(l)) returns in the code: l for RoundHeight and
\* RoundState(h); RoundState(h) for RoundFile(h); the error
\* StorageLocatorFormatIncorrect for every ContributionFile.
C27_RoundTripAsCoded ==
    ReadBack =>
        LET l == conv.locator IN
        conv.back = IF l[1] \in {"RoundHeight", "RoundState"} THEN LocatorOk(l)
                    ELSE IF l[1] = "RoundFile" THEN LocatorOk(RoundStateLocator(l[2]))
                    ELSE LocatorErr("StorageLocatorFormatIncorrect")

\* The path of RoundFile(12) has been read back as RoundState(12).
C27_Witness ==
    /\ conv.locator = RoundFileLocator(12)
    /\ conv.path = to_path(RoundFileLocator(12))
    /\ conv.back = LocatorOk(RoundStateLocator(12))

\* The decimal numerals of the numbers in LocatorNumbers, written out.
Numeral(n) ==
    IF n = 0 THEN <<"0">>
    ELSE IF n = 1 THEN <<"1">>
    ELSE IF n = 2 THEN <<"2">>
    ELSE IF n = 10 THEN <<"1", "0">>
    ELSE <<"1", "2">>

\* C28. ContributionFile(h, c, id, verified) maps to
\* {base}/round_{h}/chunk_{c}/contribution_{id}.verified when verified is
\* true or id = 0, and to ...contribution_{id}.unverified otherwise; contribution
\* id 0 gets the .verified path whatever the flag.
C28_ContributionPath ==
    (conv.path # <<>> /\ conv.locator[1] = "ContributionFile") =>
        LET h == conv.locator[2]
            c == conv.locator[3]
            id == conv.locator[4]
            verified == conv.locator[5]
            stem == <<"t", "r", "a", "n", "s", "c", "r", "i", "p", "t", "/", "r", "o", "u", "n", "d", "_">> \o Numeral(h)
                      \o <<"/", "c", "h", "u", "n", "k", "_">> \o Numeral(c)
                      \o <<"/", "c", "o", "n", "t", "r", "i", "b", "u", "t", "i", "o", "n", "_">> \o Numeral(id) IN
        /\ (verified \/ id = 0) => conv.path = stem \o <<".", "v", "e", "r", "i", "f", "i", "e", "d">>
        /\ ~(verified \/ id = 0) => conv.path = stem \o <<".", "u", "n", "v", "e", "r", "i", "f", "i", "e", "d">>
        /\ id = 0 => conv.path = to_path(ContributionFileLocator(h, c, 0, ~verified))

\* Contribution 0 of chunk 10 in round 12, flagged unverified, has been given
\* the path transcript/round_12/chunk_10/contribution_0.verified.
C28_Witness ==
    /\ conv.locator = ContributionFileLocator(12, 10, 0, FALSE)
    /\ conv.path = <<"t", "r", "a", "n", "s", "c", "r", "i", "p", "t", "/", "r", "o", "u", "n", "d", "_", "1", "2", "/", "c", "h", "u", "n", "k", "_", "1", "0", "/", "c", "o", "n", "t", "r", "i", "b", "u", "t", "i", "o", "n", "_", "0", ".", "v", "e", "r", "i", "f", "i", "e", "d">>

\* The manifest, the object map and the files of the store.
Kept(d) == [manifest |-> d.manifest, locators |-> d.locators, fs |-> d.fs, file |-> d.file]

\* C25. initialize(l, size) and insert(l, bytes) on a locator l that is
\* present fail with StorageLocatorAlreadyExists and leave the manifest, the
\* object map and the content and size of l unchanged.
C25_PresentRefused ==
    disk.loaded =>
        \A l \in DiskLocators :
            exists(disk, l) =>
                /\ \A size_ \in Sizes :
                       LET r == initialize(disk, l, size_) IN
                       /\ r.err = "StorageLocatorAlreadyExists"
                       /\ Kept(r.d) = Kept(disk)
                       /\ size(r.d, l) = size(disk, l)
                /\ \A object \in Objects :
                       LET r == insert(disk, l, object) IN
                       /\ r.err = "StorageLocatorAlreadyExists"
                       /\ Kept(r.d) = Kept(disk)
                       /\ size(r.d, l) = size(disk, l)

\* A locator that holds the object <<1>> has been given to initialize again
\* and was refused.
C25_Witness ==
    /\ disk.loaded
    /\ disk.last.op = "initialize"
    /\ disk.last.err = "StorageLocatorAlreadyExists"
    /\ disk.last.locator = ContributionFileLocator(1, 0, 0, TRUE)
    /\ exists(disk, disk.last.locator)
    /\ disk.fs[to_path(disk.last.locator)] = FileOf(<<1>>)

\* C26 as stated. initialize(l, size) on a locator that is not present
\* returns Ok: afterwards exists(l) holds, size(l) = size and the persisted
\* manifest, which a reload reads, lists l; and insert(l, bytes) on an absent
\* locator returns Ok with the content of l equal to bytes.
C26_AbsentInitialized ==
    disk.loaded =>
        \A l \in DiskLocators :
            ~exists(disk, l) =>
                /\ \A size_ \in Sizes :
                       LET r == initialize(disk, l, size_) IN
                       /\ r.err = OkErr
                       /\ exists(r.d, l)
                       /\ size(r.d, l) = size_
                       /\ l \in r.d.file.locators
                /\ \A object \in Objects :
                       LET r == insert(disk, l, object) IN
                       /\ r.err = OkErr
                       /\ r.d.fs[to_path(l)] = FileOf(object)

\* What initialize and insert do on a locator that is not present: they never
\* return Ok. Where the file can be created (its directory is there, no file
\* at its path) the answer is StorageLocatorAlreadyExists, the locator then
\* exists with a file of the given size filled with zeros - insert does not
\* reach its update - and the persisted manifest is as before; otherwise the
\* answer is an I/O error and nothing but directories is added.
C26_AbsentRefused ==
    disk.loaded =>
        \A l \in DiskLocators :
            ~exists(disk, l) =>
                \A object \in Objects :
                    LET r == initialize(disk, l, Len(object))
                        creatable == initialize_file(disk, l, Len(object), 2).err = OkErr IN
                    /\ insert(disk, l, object) = r
                    /\ r.d.file = disk.file
                    /\ creatable =>
                          /\ r.err = "StorageLocatorAlreadyExists"
                          /\ exists(r.d, l)
                          /\ r.d.fs[to_path(l)] = FileOf(Zeros(Len(object)))
                    /\ ~creatable =>
                          /\ r.err = "Io"
                          /\ Kept(r.d) = Kept(disk)

\* insert of the object <<2, 2>> at a new locator was answered
\* StorageLocatorAlreadyExists; the locator now exists, its file holds two
\* zero bytes and the persisted manifest does not list it.
C26_Witness ==
    /\ disk.loaded
    /\ disk.last = [op |-> "insert", locator |-> ContributionFileLocator(1, 0, 0, TRUE),
                    err |-> "StorageLocatorAlreadyExists"]
    /\ exists(disk, disk.last.locator)
    /\ disk.fs[to_path(disk.last.locator)] = FileOf(Zeros(2))
    /\ disk.last.locator \notin disk.file.locators

\* Every artifact file on the disk is listed in the persisted manifest.
C29_ArtifactsListed ==
    \A p \in DiskPaths :
        disk.fs[p].present => \E l \in disk.file.locators : to_path(l) = p

\* Every locator listed in the persisted manifest has its file, or a load
\* from this disk fails.
C29_ListedOrLoadFails ==
    \/ \A l \in disk.file.locators : disk.fs[to_path(l)].present
    \/ load(stopped(disk)).err # OkErr

\* C29 as stated. The manifest update that adds a locator is written before
\* the artifact is created and filled, and the one that drops a locator after
\* the file is removed: at every point where the process may stop, a file
\* that is on the disk is listed in the persisted manifest, and every locator
\* listed there refers to an existing file or the load fails.
C29_ManifestWrittenFirst == C29_ArtifactsListed /\ C29_ListedOrLoadFails

\* What holds of the code: no call on the store changes the persisted set of
\* locators, and a load succeeds only with every listed file there.
C29_ManifestNeverWritten ==
    []C29_ListedOrLoadFails /\ [][disk'.file.locators = disk.file.locators]_vars

\* A locator was initialized, the process stopped and the store was loaded
\* again: the file is on the disk, the manifest does not list it, the store
\* does not know it, and initialize of it fails on the file that is there.
C29_Witness ==
    /\ disk.loaded
    /\ disk.last.op = "load"
    /\ disk.last.err = OkErr
    /\ disk.fs[to_path(RoundStateLocator(1))] = FileOf(Zeros(2))
    /\ RoundStateLocator(1) \notin disk.file.locators
    /\ ~exists(disk, RoundStateLocator(1))
    /\ initialize(disk, RoundStateLocator(1), 2).err = "Io"

---------------------------------------------------------------------------
C31_LaterChunkWitness ==
    /\ transcript.pc = "verified"
    /\ transcript.parameters = [contribution_mode |-> "Chunked", chunk_index |-> 1]
    /\ transcript.used # transcript.digest
    /\ transcript.res = OkErr

\* A contribution to chunk 1 was refused with the digest its key was
\* generated for.
C31_LaterChunkRefused ==
    /\ transcript.pc = "verified"
    /\ transcript.parameters = [contribution_mode |-> "Chunked", chunk_index |-> 1]
    /\ transcript.used = transcript.digest
    /\ transcript.res # OkErr

---------------------------------------------------------------------------
\* C32: in every chunk of every stored round the contributions carry the ids
\* 0, 1, 2, ... in order and all of them except possibly the last one are
\* verified; add_contribution succeeds only on a chunk whose last
\* contribution is verified, and verify_contribution succeeds on contribution
\* id only when it is the unverified last one and contribution id - 1 is
\* verified.
C32_VerificationOrder ==
    /\ \A h \in Heights : rounds[h] # NoRound =>
           \A c \in ChunkIds :
               LET contributions == rounds[h].chunks[c].contributions IN
               /\ \A i \in 1 .. Len(contributions) : contributions[i].id = i - 1
               /\ \A i \in 1 .. Len(contributions) - 1 : contributions[i].verified
    /\ \A c \in ChunkIds, p \in ContributorIds :
           LET r == add_contribution(State, c, p) IN
           r.err = OkErr =>
               /\ current_contribution(current_round(State).round.chunks[c]).verified
               /\ r.val = current_contribution_id(current_round(State).round.chunks[c]) + 1
    /\ \A c \in ChunkIds, id \in ContributionIds, v \in VerifierIds, passes \in BOOLEAN :
           LET r == verify_contribution(State, c, id, v, passes) IN
           r.err = OkErr =>
               LET chunk == current_round(State).round.chunks[c] IN
               /\ id >= 1
               /\ id = current_contribution_id(chunk)
               /\ ~current_contribution(chunk).verified
               /\ get_contribution(chunk, id - 1).verified

\* A chunk holds three contributions, the last one not verified.
C32_Witness ==
    \E h \in Heights : rounds[h] # NoRound /\
        \E c \in ChunkIds :
            /\ Len(rounds[h].chunks[c].contributions) = 3
            /\ ~current_contribution(rounds[h].chunks[c]).verified

---------------------------------------------------------------------------
\* C33: a round is frozen on completion: once the stored round h is
\* complete, no step changes or deletes it.
C33_Frozen ==
    \A h \in Heights :
        (rounds[h] # NoRound /\ is_complete(rounds[h])) => rounds'[h] = rounds[h]

---------------------------------------------------------------------------
\* The steps of the call in flight and the calls beside it.
InFlightStep == inFlight' # inFlight
BesideStep == inFlight.pc # "idle" /\ inFlight' = inFlight

\* C34 (as stated): a mutating handler holds the write lock from its checks
\* to its update: between the two no other handler changes a round and the
\* round does not advance.
C34_Uninterrupted ==
    BesideStep => (rounds' = rounds /\ roundHeight' = roundHeight)

Fresh ==
    /\ current_round_height(State).err = OkErr
    /\ current_round_height(State).val = inFlight.h
    /\ inFlight.pc \in {"add_contribution", "verification", "verify_contribution"} =>
           /\ rounds[inFlight.h] # NoRound
           /\ is_chunk_locked_by(rounds[inFlight.h], inFlight.c, inFlight.p)

\* C34 (amended): the handlers read under read locks of their own and take
\* the write lock for the update only, so other calls run in between; the
\* update checks the round and the lock again under the write lock, and a
\* handler whose height is no longer the current one or whose lock is gone
\* changes no round and writes no file.
C34_StaleChangesNothing ==
    (inFlight.pc # "idle" /\ InFlightStep /\ ~Fresh) =>
        (rounds' = rounds /\ roundHeight' = roundHeight /\ files' = files /\ roundFiles' = roundFiles)

C34_StaleLockWitness ==
    /\ inFlight.pc = "add_contribution"
    /\ ~is_chunk_locked_by(rounds[inFlight.h], inFlight.c, inFlight.p)

\* The steps of a handler, taken one after the other with no call in
\* between, return what the handler returns.
C34_StepsMakeTheHandler ==
    /\ \A c \in ChunkIds, p \in Participants :
           LET r == current_round_height(State) IN
           try_lock_chunk(State, c, p) =
               IF r.err # OkErr THEN Err(State, r.err)
               ELSE try_lock_chunk_locked(State, r.val, c, p)
    /\ \A c \in ChunkIds, p \in Participants :
           LET r == add_contribution_checks(State, c, p) IN
           add_contribution(State, c, p) =
               IF r.err # OkErr THEN Err(State, r.err)
               ELSE add_contribution_locked(State, c, p, r.val)
    /\ \A c \in ChunkIds, p \in Participants, id \in ContributionIds, passes \in BOOLEAN :
           LET r == verify_contribution_checks(State, c, id, p) IN
           verify_contribution(State, c, id, p, passes) =
               IF r.err # OkErr THEN Err(State, r.err)
               ELSE LET v == verification_run(State, r.val.round_height, c, id, r.val.previous,
                                              r.val.current, r.val.next, passes) IN
                    IF v.err # OkErr THEN Err(State, v.err)
                    ELSE verify_contribution_locked(v.st, c, id, p, r.val)

---------------------------------------------------------------------------
\* The chunks are not all at the contribution id of chunk 0; the file of
\* some chunk's current contribution has not the expected length.
IdsDiffer ==
    \E c \in ChunkIds : aggregated.round.contribution_id[c] # aggregated.round.contribution_id[0]

SizeMismatch ==
    \E c \in ChunkIds :
        /\ aggregated.env.contribution[c].present
        /\ aggregated.env.contribution[c].len #
               contribution_filesize(aggregated.round.height # 0 /\ aggregated.env.compressed_outputs,
                                     aggregated.round.height = 0)

\* C35: an aggregation fails and leaves the round file as it was (none is
\* produced) when the chunks are not at one contribution id, when a
\* contribution file has not the expected length or when the round file is
\* there already; the error is NumberOfContributionsDiffer,
\* ContributionFileSizeMismatch or RoundLocatorAlreadyExists, or the panic
\* of a contribution file that is missing, and RoundLocatorAlreadyExists is
\* the error when the contributions are in order. When the aggregation
\* succeeds the round file is there with the round size.
C35_AggregationPreconditions ==
    aggregated.pc = "done" =>
        /\ (IdsDiffer \/ SizeMismatch \/ aggregated.before.present) =>
               /\ aggregated.res \in {"NumberOfContributionsDiffer", "ContributionFileSizeMismatch",
                                      "RoundLocatorAlreadyExists", "Panic"}
               /\ aggregated.env.round = aggregated.before
        /\ (aggregated.res = "NumberOfContributionsDiffer" => IdsDiffer)
        /\ (aggregated.res = "ContributionFileSizeMismatch" => SizeMismatch)
        /\ (aggregated.res = "RoundLocatorAlreadyExists" <=>
               (aggregated.before.present /\ readers(aggregated.env, aggregated.round) = OkErr))
        /\ aggregated.res = OkErr =>
               aggregated.env.round =
                   FileOfLen(round_filesize(aggregated.round.height # 0 /\ aggregated.env.compressed_inputs,
                                            aggregated.round.height = 0))

\* An aggregation was refused for each of the three reasons, and one
\* succeeded.
C35_Witness ==
    /\ aggregated.pc = "done"
    /\ aggregated.res = "ContributionFileSizeMismatch"
    /\ ~IdsDiffer
    /\ ~aggregated.before.present

C35_WitnessIdsDiffer ==
    aggregated.pc = "done" /\ aggregated.res = "NumberOfContributionsDiffer"

C35_WitnessRoundFileThere ==
    aggregated.pc = "done" /\ aggregated.res = "RoundLocatorAlreadyExists"

C35_WitnessAggregated ==
    aggregated.pc = "done" /\ aggregated.res = OkErr /\ aggregated.round.height = 1

---------------------------------------------------------------------------
\* C36 (as stated): remove called on a locator that is present succeeds and
\* the locator does not exist afterwards: its file is deleted and it is
\* dropped from the object map and from the manifest.
C36_PresentRemoved ==
    \A l \in DiskLocators :
        (disk.loaded /\ exists(disk, l)) =>
            LET r == remove(disk, l) IN
            /\ r.err = OkErr
            /\ ~exists(r.d, l)
            /\ r.d.fs[to_path(l)] = NoFile

\* C36, as the code has it: remove refuses every locator that is present
\* with StorageLocatorAlreadyExists, and fails on every locator that is not
\* present; in both cases nothing is changed.
C36_RemoveRefusesAll ==
    \A l \in DiskLocators :
        disk.loaded =>
            LET r == remove(disk, l) IN
            /\ r.d = disk
            /\ exists(disk, l) => r.err = "StorageLocatorAlreadyExists"
            /\ ~exists(disk, l) => r.err = "StorageLockFailed"

\* remove was called on a locator that is present, and the locator is still
\* there with its file.
C36_Witness ==
    /\ disk.last.op = "remove"
    /\ disk.last.err = "StorageLocatorAlreadyExists"
    /\ exists(disk, disk.last.locator)
    /\ disk.fs[to_path(disk.last.locator)].present

---------------------------------------------------------------------------
\* The position of a step in the order of the client.
StepIndex(step) == CHOOSE i \in 1 .. Len(VerifierSteps) : VerifierSteps[i] = step

---------------------------------------------------------------------------
\* Chunk c of the current round holds all expected contributions.
FullChunk(c) ==
    /\ HasCurrent
    /\ only_contributions_complete(Cur.chunks[c], expected_num_contributions(Cur))

\* No chunk of a stored round holds more contributions than expected.
C38_AtMostExpected ==
    \A h \in Heights : rounds[h] # NoRound =>
        \A c \in ChunkIds :
            /\ Len(rounds[h].chunks[c].contributions) <= expected_num_contributions(rounds[h])
            /\ \A i \in 1 .. Len(rounds[h].chunks[c].contributions) :
                   rounds[h].chunks[c].contributions[i].id < expected_num_contributions(rounds[h])

---------------------------------------------------------------------------
\* Every next_round that fails on a storage whose calls succeed leaves the
\* round height and the current round as they were.
FailedNextRoundKeepsHeight ==
    \A cs \in ContributorSets, vs \in VerifierSets :
        LET r == next_round(State, cs, vs) IN
        (current_round_height(State).val < MaxHeight /\ r.err # OkErr) =>
            /\ current_round_height(r.st) = [current_round_height(State) EXCEPT !.st = r.st]
            /\ r.st.height = State.height
            /\ current_round(r.st).err = current_round(State).err
            /\ current_round(r.st).round = current_round(State).round

\* A next_round failed on a round that is not complete, and the height is
\* the one before the call.
FailedNextRoundWitness ==
    /\ HasCurrent
    /\ CurHeight < MaxHeight
    /\ ~is_complete(Cur)
    /\ \E cs \in ContributorSets, vs \in VerifierSets :
           /\ next_round(State, cs, vs).err = "RoundNotComplete"
           /\ current_round_height(next_round(State, cs, vs).st).val = CurHeight

\* A next_round failed after it had written to the disk: the state it
\* leaves is not the state before the call.
FailedAfterWritingWitness ==
    \E cs \in ContributorSets, vs \in VerifierSets :
        /\ current_round_height(State).val < MaxHeight
        /\ next_round(State, cs, vs).err # OkErr
        /\ next_round(State, cs, vs).st # State

\* C39: whenever next_round returns an error, a failure of the storage
\* inside save_round_to_storage included, current_round_height returns
\* afterwards what it returned before the call, and the round that is
\* current afterwards is the one that was current before.
C39_FailedNextRoundKeepsHeight ==
    /\ FailedNextRoundKeepsHeight
    /\ \A cs \in ContributorSets, vs \in VerifierSets, at \in StorageFailures :
           LET r == next_round_storage_failed(State, cs, vs, at) IN
           (current_round_height(State).val < MaxHeight /\ r.err # OkErr) =>
               /\ current_round_height(r.st).val = current_round_height(State).val
               /\ current_round(r.st).err = current_round(State).err
               /\ current_round(r.st).round = current_round(State).round

\* The current round is complete, the save of a next_round that follows
\* fails after its two inserts, next_round returns StorageFailed, and
\* current_round_height returns the height before the call plus one.
C39_Witness ==
    /\ HasCurrent
    /\ CurHeight >= 1
    /\ CurHeight < MaxHeight
    /\ is_complete(Cur)
    /\ \E cs \in ContributorSets, vs \in VerifierSets :
           LET r == next_round_storage_failed(State, cs, vs, "save") IN
           /\ r.err = "StorageFailed"
           /\ current_round_height(r.st).val = CurHeight + 1
           /\ current_round(r.st).round.height = CurHeight + 1

\* The storage holds a round above the round height: a next_round left it
\* there when the insert of the round height failed.
C39_WitnessRoundAboveHeight ==
    /\ HasCurrent
    /\ CurHeight < MaxHeight
    /\ rounds[CurHeight + 1] # NoRound


---------------------------------------------------------------------------
\* The two calls issued on round h are over.
TwoCallsOver ==
    /\ inFlight.pc = "race"
    /\ \A i \in Calls : inFlight.call[i].pc = "done"

\* Call i returned h+1 and the other call did not succeed.
Wins(i) ==
    /\ inFlight.call[i].err = OkErr
    /\ inFlight.call[i].val = inFlight.h + 1
    /\ inFlight.call[3 - i].err # OkErr

\* Once both calls are over, exactly one has returned h+1 and the other has
\* failed, the height is h+1, RoundState(h+1) was saved once and is the
\* round of the winning call, and the round file of h was created once.
OneCallAdvances ==
    (TwoCallsOver /\ inFlight.alone) =>
        /\ \E i \in Calls :
               /\ Wins(i)
               /\ rounds[inFlight.h + 1] = RoundNew(inFlight.h + 1, inFlight.call[i].contributors, {"v1"})
        /\ current_round_height(State).val = inFlight.h + 1
        /\ inFlight.saved = 1
        /\ inFlight.produced = 1
        /\ round_locator_exists(State, inFlight.h)

\* No call stands before a save that the heights of the model leave out.
SavesWithinHeights ==
    inFlight.pc = "race" =>
        \A i \in Calls : inFlight.call[i].pc = "save" => inFlight.call[i].h < MaxHeight

\* The steps of a call, run one after the other with nothing in between,
\* are next_round.
StepsMakeNextRound ==
    \A cs \in ContributorSets, vs \in VerifierSets :
        current_round_height(State).val < MaxHeight =>
            LET b == next_round_begin(State)
                a == IF b.err # OkErr \/ b.val = 0 THEN b ELSE run_aggregation_checks(b.st)
                c == IF a.err # OkErr \/ b.val = 0 THEN a ELSE run_aggregation_creates(a.st, a.val)
                i == IF c.err # OkErr THEN c ELSE run_initialization_checks(c.st, b.val)
                s == IF i.err # OkErr THEN i
                     ELSE save_round_to_storage(i.st, b.val + 1, RoundNew(b.val + 1, cs, vs))
                e == IF s.err # OkErr THEN s ELSE next_round_end(s.st, b.val) IN
            e = next_round(State, cs, vs)

\* C40: when two next_round calls are issued concurrently on the same
\* complete round h, exactly one of them succeeds and returns h+1, the other
\* returns an error, the height ends at h+1, RoundState(h+1) is written once
\* and not overwritten by the losing call, and the round file of h is
\* produced once.
C40_OneSucceedsOtherReturnsError ==
    /\ OneCallAdvances
    /\ (TwoCallsOver /\ inFlight.alone) =>
           \A i \in Calls : inFlight.call[i].err # "Panic"

\* Both calls passed the round_locator_exists check of Aggregation::writer
\* before either created the round file: one call has returned h+1 and the
\* other has panicked on create_new.
C40_Witness ==
    /\ TwoCallsOver
    /\ inFlight.alone
    /\ \E i \in Calls :
           /\ Wins(i)
           /\ inFlight.call[3 - i].err = "Panic"
           /\ inFlight.call[3 - i].aggregating = inFlight.h
    /\ current_round_height(State).val = inFlight.h + 1

\* The losing call read the height after the winning call had saved round
\* h+1, and was refused on round h+1.
C40_WitnessLateCall ==
    /\ TwoCallsOver
    /\ inFlight.alone
    /\ \E i \in Calls : Wins(i) /\ inFlight.call[3 - i].h = inFlight.h + 1

=============================================================================
